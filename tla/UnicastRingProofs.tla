------------------------- MODULE UnicastRingProofs -------------------------
(***************************************************************************)
(* The unicast rings for any number of slots, writers and readers.         *)
(*                                                                         *)
(* UniInv is inductive.  Every claimed position from wt_ to ct_ is with    *)
(* exactly one party: the writer that claimed it, its flag, or whoever has *)
(* taken the flag down and is about to move wt_ (Flags, Movers, Covered).  *)
(* That is why the stale wt_ a writer may see does no harm: only the flag  *)
(* of the position at wt_ itself can still be taken down.                  *)
(***************************************************************************)
EXTENDS UnicastRing, RingArith

ProdPlaces == {"idle", "push", "full", "room", "claim", "fill", "filling", "flag",
               "next", "isnext", "unflag", "move"}
ConsPlaces == {"idle", "pop", "loaded", "copy", "take", "taken", "help", "unflag", "move"}

Slots == 0 .. RingSize - 1
Elements == [data : Int, flag : Int]

UniTypeOK ==
  /\ policy \in {"sm", "mm"} /\ uwt \in Nat /\ urd \in Nat /\ uct \in Nat
  /\ elems \in [Slots -> Elements]
  /\ prod \in [UniProducers -> [pc : ProdPlaces, ct : Nat, flag : Int]]
  /\ cons \in [UniConsumers -> [pc : ConsPlaces, rd : Nat, wt : Nat, buff : Int]]

\* A writer with a position of its own; whoever is about to move wt_.
Writing(p) == prod[p].pc \in {"fill", "filling", "flag"}
ProdMoving(p) == prod[p].pc = "move"
ConsMoving(r) == cons[r].pc = "move"

Window == /\ urd <= uwt /\ uwt < urd + RingSize
          /\ policy = "mm" => uwt <= uct /\ uct < urd + RingSize
Kept == \A i \in Nat : urd <= i /\ i < uwt => elems[IndexOf(i)].data = i

Writers ==
  /\ \A p \in UniProducers : Writing(p) =>
       /\ uwt <= prod[p].ct /\ prod[p].ct + 1 < urd + RingSize
       /\ policy = "mm" => prod[p].ct < uct
       /\ policy = "sm" => prod[p].ct = uwt
       /\ prod[p].pc = "flag" => elems[IndexOf(prod[p].ct)].data = prod[p].ct
  /\ \A p, q \in UniProducers : Writing(p) /\ Writing(q) /\ prod[p].ct = prod[q].ct => p = q

Flags == \A s \in Slots : LET f == elems[s].flag IN f # NoFlag =>
  /\ policy = "mm" /\ f \in Nat /\ uwt <= f /\ f < uct /\ IndexOf(f) = s /\ elems[s].data = f
  /\ \A p \in UniProducers : Writing(p) \/ ProdMoving(p) => prod[p].ct # f
  /\ \A r \in UniConsumers : ConsMoving(r) => cons[r].wt # f

Movers ==
  /\ \A p \in UniProducers : ProdMoving(p) =>
       policy = "mm" /\ prod[p].ct = uwt /\ uwt < uct /\ elems[IndexOf(uwt)].data = uwt
  /\ \A r \in UniConsumers : ConsMoving(r) =>
       policy = "mm" /\ cons[r].wt = uwt /\ uwt < uct /\ elems[IndexOf(uwt)].data = uwt
  /\ \A p, q \in UniProducers : ProdMoving(p) /\ ProdMoving(q) => p = q
  /\ \A r, q \in UniConsumers : ConsMoving(r) /\ ConsMoving(q) => r = q
  /\ \A p \in UniProducers, r \in UniConsumers : ~(ProdMoving(p) /\ ConsMoving(r))
  /\ \A p, q \in UniProducers : ProdMoving(p) /\ Writing(q) => prod[q].ct # uwt
  /\ \A r \in UniConsumers, q \in UniProducers : ConsMoving(r) /\ Writing(q) => prod[q].ct # uwt

Covered == policy = "mm" => \A i \in Nat : uwt <= i /\ i < uct =>
  \/ elems[IndexOf(i)].flag = i
  \/ \E p \in UniProducers : (Writing(p) \/ ProdMoving(p)) /\ prod[p].ct = i
  \/ \E r \in UniConsumers : ConsMoving(r) /\ cons[r].wt = i

\* What the locals of a call still say about the ring.
ProdLocal == \A p \in UniProducers :
  /\ prod[p].pc \in {"room", "claim"} => prod[p].ct <= uct
  /\ prod[p].pc = "claim" /\ prod[p].ct = uct => uct + 1 < urd + RingSize
  /\ prod[p].pc = "unflag" => prod[p].flag = prod[p].ct /\ prod[p].ct <= uwt
ConsLocal == \A r \in UniConsumers :
  /\ cons[r].pc \in {"loaded", "copy", "take"} => cons[r].rd <= urd
  /\ cons[r].pc \in {"copy", "take"} /\ cons[r].rd = urd => urd < uwt
  /\ cons[r].pc = "take" /\ cons[r].rd = urd => cons[r].buff = urd
  /\ cons[r].pc = "taken" => cons[r].buff = cons[r].rd /\ cons[r].rd < urd
  /\ cons[r].pc \in {"help", "unflag"} => cons[r].wt <= uwt
OnePop == \A r, q \in UniConsumers :
  cons[r].pc = "taken" /\ cons[q].pc = "taken" /\ cons[r].rd = cons[q].rd => r = q

\* The policy with a single writer uses neither claims nor flags.
Single == policy = "sm" =>
  /\ uct = 0
  /\ \A p \in UniProducers : prod[p].pc \in {"idle", "push", "full", "fill", "filling", "flag"}
  /\ \A p, q \in UniProducers : prod[p].pc # "idle" /\ prod[q].pc # "idle" => p = q
  /\ \A r \in UniConsumers : cons[r].pc \notin {"help", "unflag", "move"}

UniInv == /\ UniTypeOK /\ Window /\ Kept /\ Writers /\ Flags /\ Movers /\ Covered
          /\ ProdLocal /\ ConsLocal /\ OnePop /\ Single

-----------------------------------------------------------------------------
\* index_of tells positions less than a round apart from each other.
LEMMA Slot ==
  /\ \A i \in Nat : IndexOf(i) \in Slots
  /\ \A i, j \in Nat : IndexOf(i) = IndexOf(j) /\ i < j + RingSize /\ j < i + RingSize => i = j
  /\ \A i \in Nat : IndexOf(i + RingSize) = IndexOf(i)
  <1>1. ASSUME NEW i \in Nat PROVE IndexOf(i) \in Slots
    <2>1. i % RingSize \in Nat /\ i % RingSize < RingSize
      BY UnicastAssumption, DivMod
    <2> QED BY <2>1, UnicastAssumption DEF IndexOf, Slots
  <1>2. ASSUME NEW i \in Nat, NEW j \in Nat, IndexOf(i) = IndexOf(j),
               i < j + RingSize, j < i + RingSize
        PROVE  i = j
    <2>1. i < j => FALSE
      BY <1>2, UnicastAssumption, OtherSlot DEF IndexOf
    <2>2. j < i => FALSE
      BY <1>2, UnicastAssumption, OtherSlot DEF IndexOf
    <2> QED BY <2>1, <2>2
  <1>3. ASSUME NEW i \in Nat PROVE IndexOf(i + RingSize) = IndexOf(i)
    BY UnicastAssumption, SameSlot DEF IndexOf
  <1> QED BY <1>1, <1>2, <1>3

\* The ring starts empty.
LEMMA UniStarts == UniInit => UniInv
  <1> SUFFICES ASSUME UniInit PROVE UniInv
    OBVIOUS
  <1> USE UnicastAssumption DEF UniInit, NoProd, NoCons, NoFlag, Torn
  <1>1. UniTypeOK
    BY DEF UniTypeOK, Slots, Elements, ProdPlaces, ConsPlaces
  <1>2. \A p \in UniProducers : prod[p].pc = "idle" /\ ~Writing(p) /\ ~ProdMoving(p)
    BY DEF Writing, ProdMoving
  <1>3. \A r \in UniConsumers : cons[r].pc = "idle" /\ ~ConsMoving(r)
    BY DEF ConsMoving
  <1>4. Window /\ Kept /\ Writers /\ Movers /\ Covered
    BY <1>2, <1>3 DEF Window, Kept, Writers, Movers, Covered
  <1>5. Flags
    BY DEF Flags, Slots
  <1>6. ProdLocal /\ ConsLocal /\ OnePop /\ Single
    BY <1>2, <1>3 DEF ProdLocal, ConsLocal, OnePop, Single
  <1> QED BY <1>1, <1>4, <1>5, <1>6 DEF UniInv

\* A step of producer p that changes its record only.
ProdAlone(p) == /\ prod' \in [UniProducers -> [pc : ProdPlaces, ct : Nat, flag : Int]]
                /\ \A q \in UniProducers \ {p} : prod'[q] = prod[q]
ConsAlone(r) == /\ cons' \in [UniConsumers -> [pc : ConsPlaces, rd : Nat, wt : Nat, buff : Int]]
                /\ \A q \in UniConsumers \ {r} : cons'[q] = cons[q]

\* A writer that neither has nor gets a position or the right to move wt_.
LEMMA ProdFrame ==
  ASSUME UniInv, NEW p \in UniProducers, ProdAlone(p),
         UNCHANGED <<policy, uwt, urd, uct, elems, cons>>,
         prod[p].pc \notin {"fill", "filling", "flag", "move"},
         prod'[p].pc \notin {"fill", "filling", "flag", "move"},
         prod'[p].pc \in {"room", "claim"} => prod'[p].ct <= uct,
         prod'[p].pc = "claim" /\ prod'[p].ct = uct => uct + 1 < urd + RingSize,
         prod'[p].pc = "unflag" => prod'[p].flag = prod'[p].ct /\ prod'[p].ct <= uwt,
         policy = "sm" => /\ prod'[p].pc \in {"idle", "push", "full"}
                          /\ prod[p].pc = "idle" /\ prod'[p].pc # "idle" =>
                               \A q \in UniProducers : prod[q].pc = "idle"
  PROVE  UniInv'
  <1>1. \A q \in UniProducers : /\ Writing(q)' <=> Writing(q)
                                /\ ProdMoving(q)' <=> ProdMoving(q)
                                /\ Writing(q) \/ ProdMoving(q) => prod'[q] = prod[q]
    BY DEF ProdAlone, Writing, ProdMoving
  <1>2. \A r \in UniConsumers : ConsMoving(r)' <=> ConsMoving(r)
    BY DEF ConsMoving
  <1>3. UniTypeOK' /\ Window' /\ Kept'
    BY DEF UniInv, UniTypeOK, Window, Kept, ProdAlone
  <1>4. Writers' /\ Movers'
    BY <1>1, <1>2 DEF UniInv, Writers, Movers
  <1>5. Flags'
    BY <1>1, <1>2 DEF UniInv, Flags
  <1>6. Covered'
    BY <1>1, <1>2 DEF UniInv, Covered
  <1>7. ProdLocal'
    BY DEF UniInv, ProdLocal, ProdAlone
  <1>8. ConsLocal' /\ OnePop'
    BY DEF UniInv, ConsLocal, OnePop
  <1>9. Single'
    BY DEF UniInv, Single, ProdAlone
  <1> QED BY <1>3, <1>4, <1>5, <1>6, <1>7, <1>8, <1>9 DEF UniInv

\* A reader that neither has nor gets a message or the right to move wt_.
LEMMA ConsFrame ==
  ASSUME UniInv, NEW r \in UniConsumers, ConsAlone(r),
         UNCHANGED <<policy, uwt, urd, uct, elems, prod>>,
         cons[r].pc # "move", cons'[r].pc \notin {"move", "taken"},
         cons'[r].pc \in {"loaded", "copy", "take"} => cons'[r].rd <= urd,
         cons'[r].pc \in {"copy", "take"} /\ cons'[r].rd = urd => urd < uwt,
         cons'[r].pc = "take" /\ cons'[r].rd = urd => cons'[r].buff = urd,
         cons'[r].pc \in {"help", "unflag"} => cons'[r].wt <= uwt /\ policy = "mm"
  PROVE  UniInv'
  <1>1. \A q \in UniConsumers : /\ ConsMoving(q)' <=> ConsMoving(q)
                                /\ ConsMoving(q) => cons'[q] = cons[q]
    BY DEF ConsAlone, ConsMoving
  <1>2. \A p \in UniProducers : /\ Writing(p)' <=> Writing(p)
                                /\ ProdMoving(p)' <=> ProdMoving(p)
    BY DEF Writing, ProdMoving
  <1>3. UniTypeOK' /\ Window' /\ Kept' /\ ProdLocal'
    BY DEF UniInv, UniTypeOK, Window, Kept, ConsAlone, ProdLocal
  <1>4. Writers' /\ Movers'
    BY <1>1, <1>2 DEF UniInv, Writers, Movers
  <1>5. Flags'
    BY <1>1, <1>2 DEF UniInv, Flags
  <1>6. Covered'
    BY <1>1, <1>2 DEF UniInv, Covered
  <1>7. ConsLocal' /\ OnePop'
    BY DEF UniInv, ConsLocal, OnePop, ConsAlone
  <1>8. Single'
    BY DEF UniInv, Single, ConsAlone, UniTypeOK
  <1> QED BY <1>3, <1>4, <1>5, <1>6, <1>7, <1>8 DEF UniInv

\* Types that every step of a call starts from.
LEMMA UniFacts ==
  ASSUME UniInv
  PROVE  /\ RingSize \in Nat \ {0}
         /\ policy \in {"sm", "mm"} /\ uwt \in Nat /\ urd \in Nat /\ uct \in Nat
         /\ elems \in [Slots -> Elements]
         /\ prod \in [UniProducers -> [pc : ProdPlaces, ct : Nat, flag : Int]]
         /\ cons \in [UniConsumers -> [pc : ConsPlaces, rd : Nat, wt : Nat, buff : Int]]
  BY UnicastAssumption DEF UniInv, UniTypeOK

\* A step from one place to another, as Prod and Cons state it.
LEMMA ProdMove ==
  ASSUME UniInv, NEW p \in UniProducers, NEW from, NEW to \in ProdPlaces, Prod(p, from, to)
  PROVE  /\ ProdAlone(p) /\ prod[p].pc = from /\ prod'[p].pc = to
         /\ to # "idle" => prod'[p].ct = prod[p].ct /\ prod'[p].flag = prod[p].flag
  <1>1. NoProd \in [pc : ProdPlaces, ct : Nat, flag : Int] /\ NoProd.pc = "idle"
    BY DEF NoProd, ProdPlaces, NoFlag
  <1> QED BY <1>1, UniFacts DEF Prod, ProdAlone

\* The same for a reader.
LEMMA ConsMove ==
  ASSUME UniInv, NEW r \in UniConsumers, NEW from, NEW to \in ConsPlaces, Cons(r, from, to)
  PROVE  /\ ConsAlone(r) /\ cons[r].pc = from /\ cons'[r].pc = to
         /\ to \notin {"idle", "pop"} => /\ cons'[r].rd = cons[r].rd /\ cons'[r].wt = cons[r].wt
                                        /\ cons'[r].buff = cons[r].buff
  <1>1. /\ NoCons \in [pc : ConsPlaces, rd : Nat, wt : Nat, buff : Int]
        /\ [NoCons EXCEPT !.pc = to] \in [pc : ConsPlaces, rd : Nat, wt : Nat, buff : Int]
        /\ [NoCons EXCEPT !.pc = to].pc = to
    BY DEF NoCons, ConsPlaces, Torn
  <1> QED BY <1>1, UniFacts DEF Cons, ConsAlone

\* send, the loads and tests of push before it has a position, and its ends.
LEMMA PushOutside ==
  ASSUME UniInv, NEW p \in UniProducers,
         \/ send(p) \/ push_load(p) \/ push_room(p) \/ push_full(p)
         \/ push_claim(p) /\ prod'[p].pc = "push"
  PROVE  UniInv'
  <1>1. UNCHANGED <<policy, uwt, urd, elems, cons>>
    BY DEF send, push_load, push_room, push_full, push_claim
  <1>2. CASE send(p)
    <2>1. ProdAlone(p) /\ prod[p].pc = "idle" /\ prod'[p].pc = "push" /\ UNCHANGED uct
      BY <1>2, ProdMove DEF send, ProdPlaces
    <2>2. policy = "sm" => \A q \in UniProducers : prod[q].pc = "idle"
      BY <1>2 DEF send
    <2> QED BY <1>1, <2>1, <2>2, ProdFrame
  <1>3. CASE push_load(p)
    <2>1. /\ ProdAlone(p) /\ prod[p].pc = "push" /\ prod'[p].pc = "room" /\ prod'[p].ct = uct
          /\ policy = "mm" /\ UNCHANGED uct
      BY <1>3, UniFacts DEF push_load, ProdAlone, ProdPlaces
    <2> QED BY <1>1, <2>1, UniFacts, ProdFrame
  <1>4. CASE push_room(p)
    <2>1. /\ ProdAlone(p) /\ prod[p].pc = "room" /\ prod'[p].pc \in {"full", "claim"}
          /\ prod'[p].ct = prod[p].ct /\ UNCHANGED uct
          /\ prod'[p].pc = "claim" => IndexOf(prod[p].ct + 1) # IndexOf(urd)
      BY <1>4, ProdMove DEF push_room, ProdPlaces
    <2>2. policy = "mm" /\ prod[p].ct <= uct
      BY <2>1, UniFacts DEF UniInv, Single, ProdLocal
    <2>3. ASSUME prod'[p].pc = "claim", prod'[p].ct = uct PROVE uct + 1 < urd + RingSize
      <3>1. uct < urd + RingSize /\ urd <= uct
        BY <2>2, UniFacts DEF UniInv, Window
      <3>2. uct + 1 # urd + RingSize
        BY <2>1, <2>3, UniFacts, Slot
      <3> QED BY <3>1, <3>2, UniFacts
    <2> QED BY <1>1, <2>1, <2>2, <2>3, UniFacts, ProdFrame
  <1>5. CASE push_full(p)
    <2>1. /\ ProdAlone(p) /\ prod[p].pc = "full" /\ prod'[p].pc \in {"push", "idle"} /\ UNCHANGED uct
      BY <1>5, ProdMove DEF push_full, ProdPlaces
    <2> QED BY <1>1, <2>1, ProdFrame
  <1>6. CASE push_claim(p) /\ prod'[p].pc = "push"
    <2>1. /\ ProdAlone(p) /\ prod[p].pc = "claim" /\ prod'[p].pc = "push" /\ UNCHANGED uct
      BY <1>6, ProdMove DEF push_claim, ProdPlaces
    <2> QED BY <1>1, <2>1, ProdFrame DEF UniInv, Single
  <1> QED BY <1>2, <1>3, <1>4, <1>5, <1>6

\* The loop that moves wt_ while it only looks, and the flag it finds gone.
LEMMA PushLooks ==
  ASSUME UniInv, NEW p \in UniProducers,
         push_next(p) \/ (push_unflag(p) /\ prod'[p].pc = "idle")
  PROVE  UniInv'
  <1>1. UNCHANGED <<policy, uwt, urd, uct, cons>>
    BY DEF push_next, push_unflag
  <1>2. CASE push_next(p) /\ prod[p].pc = "next"
    <2>1. prod' = [prod EXCEPT ![p].pc = "isnext", ![p].flag = elems[IndexOf(prod[p].ct)].flag]
      BY <1>2 DEF push_next, Prod
    <2>2. elems[IndexOf(prod[p].ct)].flag \in Int /\ UNCHANGED elems
      BY <1>2, UniFacts, Slot DEF push_next, Elements
    <2>3. ProdAlone(p) /\ prod'[p].pc = "isnext"
      BY <2>1, <2>2, UniFacts DEF ProdAlone, ProdPlaces
    <2>4. policy # "sm"
      BY <1>2 DEF UniInv, Single
    <2> QED BY <1>1, <1>2, <2>2, <2>3, <2>4, ProdFrame
  <1>3. CASE push_next(p) /\ prod[p].pc # "next"
    <2>1. PICK seen \in 0 .. uwt :
            IF prod[p].ct = seen /\ prod[p].flag = prod[p].ct THEN Prod(p, "isnext", "unflag")
                                                              ELSE Prod(p, "isnext", "idle")
      BY <1>3 DEF push_next
    <2>2. /\ ProdAlone(p) /\ prod[p].pc = "isnext" /\ prod'[p].pc \in {"unflag", "idle"}
          /\ prod'[p].pc = "unflag" => prod'[p].flag = prod'[p].ct /\ prod'[p].ct <= uwt
      BY <2>1, ProdMove, UniFacts DEF ProdPlaces
    <2>3. policy # "sm"
      BY <2>2 DEF UniInv, Single
    <2>4. UNCHANGED elems
      BY <1>3 DEF push_next
    <2> QED BY <1>1, <2>2, <2>3, <2>4, ProdFrame
  <1>4. CASE push_unflag(p) /\ prod'[p].pc = "idle"
    <2>1. ProdAlone(p) /\ prod[p].pc = "unflag" /\ prod'[p].pc = "idle" /\ UNCHANGED elems
      BY <1>4, ProdMove DEF push_unflag, ProdPlaces
    <2> QED BY <1>1, <2>1, ProdFrame
  <1> QED BY <1>2, <1>3, <1>4

\* A writer gets a position: the single writer finds room, or a compare-exchange
\* of ct_ succeeds.
LEMMA PushStarts ==
  ASSUME UniInv, NEW p \in UniProducers,
         \/ push_single(p) /\ prod[p].pc = "push"
         \/ push_claim(p) /\ prod'[p].pc = "fill"
  PROVE  UniInv'
  <1>1. UNCHANGED <<policy, uwt, urd, elems, cons>>
    BY DEF push_single, push_claim, Prod
  <1>2. CASE push_single(p) /\ prod[p].pc = "push" /\ prod'[p].pc = "full"
    <2>1. /\ ProdAlone(p) /\ UNCHANGED uct
      BY <1>2, UniFacts DEF push_single, ProdAlone, ProdPlaces, Prod
    <2> QED BY <1>1, <1>2, <2>1, ProdFrame
  <1>3. ASSUME ProdAlone(p), prod'[p].pc = "fill", ~Writing(p), ~ProdMoving(p), prod[p].pc # "idle",
               uct' \in Nat, prod'[p].ct = IF policy = "mm" THEN uct ELSE uwt,
               uct' = IF policy = "mm" THEN uct + 1 ELSE uct,
               prod'[p].ct + 1 < urd + RingSize
        PROVE  UniInv'
    <2>1. /\ \A q \in UniProducers : q # p => /\ prod'[q] = prod[q]
                                            /\ (Writing(q)' <=> Writing(q))
                                            /\ (ProdMoving(q)' <=> ProdMoving(q))
          /\ Writing(p)' /\ ~ProdMoving(p)'
      BY <1>3 DEF ProdAlone, Writing, ProdMoving
    <2>2. \A r \in UniConsumers : ConsMoving(r)' <=> ConsMoving(r)
      BY <1>1 DEF ConsMoving
    <2>3. UniTypeOK' /\ Kept'
      BY <1>1, <1>3 DEF UniInv, UniTypeOK, Kept, ProdAlone
    <2>4. Window'
      BY <1>1, <1>3, UniFacts DEF UniInv, Window
    <2>5. Writers'
      <3>1. ASSUME NEW q \in UniProducers, q # p, Writing(q) PROVE prod[q].ct # prod'[p].ct
        <4>1. CASE policy = "mm"
          BY <1>3, <3>1, <4>1, UniFacts DEF UniInv, Writers
        <4>2. CASE policy = "sm"
          BY <1>3, <3>1, <4>2 DEF UniInv, Single, Writing
        <4> QED BY <4>1, <4>2, UniFacts
      <3>2. ASSUME NEW q \in UniProducers, Writing(q)'
            PROVE  /\ uwt' <= prod'[q].ct /\ prod'[q].ct + 1 < urd' + RingSize
                   /\ policy' = "mm" => prod'[q].ct < uct'
                   /\ policy' = "sm" => prod'[q].ct = uwt'
                   /\ prod'[q].pc = "flag" => elems'[IndexOf(prod'[q].ct)].data = prod'[q].ct
        <4>1. CASE q = p
          BY <1>1, <1>3, <4>1, UniFacts DEF UniInv, Window
        <4>2. CASE q # p
          <5>1. prod[q].ct \in Nat
            BY UniFacts
          <5> QED BY <1>1, <1>3, <2>1, <3>2, <4>2, <5>1, UniFacts DEF UniInv, Writers
        <4> QED BY <4>1, <4>2
      <3>3. ASSUME NEW q \in UniProducers, NEW u \in UniProducers,
                   Writing(q)', Writing(u)', prod'[q].ct = prod'[u].ct
            PROVE  q = u
        BY <2>1, <3>1, <3>3 DEF UniInv, Writers
      <3> QED BY <3>2, <3>3 DEF Writers
    <2>6. Flags'
      <3> SUFFICES ASSUME NEW s \in Slots, elems[s].flag # NoFlag
                   PROVE  LET f == elems[s].flag IN
                          /\ policy = "mm" /\ f \in Nat /\ uwt <= f /\ f < uct' /\ IndexOf(f) = s
                          /\ elems[s].data = f
                          /\ \A q \in UniProducers : Writing(q)' \/ ProdMoving(q)' => prod'[q].ct # f
                          /\ \A r \in UniConsumers : ConsMoving(r)' => cons[r].wt # f
        BY <1>1 DEF Flags
      <3> DEFINE f == elems[s].flag
      <3>1. /\ policy = "mm" /\ f \in Nat /\ uwt <= f /\ f < uct /\ IndexOf(f) = s
            /\ elems[s].data = f
            /\ \A q \in UniProducers : Writing(q) \/ ProdMoving(q) => prod[q].ct # f
            /\ \A r \in UniConsumers : ConsMoving(r) => cons[r].wt # f
        BY DEF UniInv, Flags
      <3>2. prod'[p].ct # f
        BY <1>3, <3>1, UniFacts
      <3> QED BY <1>3, <2>1, <2>2, <3>1, <3>2, UniFacts
    <2>7. Movers'
      <3>1. ASSUME policy = "mm" /\ uwt < uct PROVE prod'[p].ct # uwt
        BY <1>3, <3>1, UniFacts
      <3> QED BY <1>1, <1>3, <2>1, <2>2, <3>1, UniFacts DEF UniInv, Movers
    <2>8. Covered'
      <3> SUFFICES ASSUME policy = "mm", NEW i \in Nat, uwt <= i, i < uct'
                   PROVE  \/ elems[IndexOf(i)].flag = i
                          \/ \E q \in UniProducers : (Writing(q)' \/ ProdMoving(q)') /\ prod'[q].ct = i
                          \/ \E r \in UniConsumers : ConsMoving(r)' /\ cons[r].wt = i
        BY <1>1 DEF Covered
      <3>1. CASE i = uct
        BY <1>3, <2>1, <3>1
      <3>2. CASE i < uct
        <4>1. \/ elems[IndexOf(i)].flag = i
              \/ \E q \in UniProducers : (Writing(q) \/ ProdMoving(q)) /\ prod[q].ct = i
              \/ \E r \in UniConsumers : ConsMoving(r) /\ cons[r].wt = i
          BY <3>2 DEF UniInv, Covered
        <4> QED BY <1>3, <2>1, <2>2, <4>1
      <3>3. i = uct \/ i < uct
        <4>1. uct' = uct + 1 /\ uct \in Nat
          BY <1>3, UniFacts
        <4> QED BY <4>1
      <3> QED BY <3>1, <3>2, <3>3
    <2>9. ProdLocal'
      <3> SUFFICES ASSUME NEW q \in UniProducers
                   PROVE  /\ prod'[q].pc \in {"room", "claim"} => prod'[q].ct <= uct'
                          /\ prod'[q].pc = "claim" /\ prod'[q].ct = uct' => uct' + 1 < urd + RingSize
                          /\ prod'[q].pc = "unflag" => prod'[q].flag = prod'[q].ct /\ prod'[q].ct <= uwt
        BY <1>1 DEF ProdLocal
      <3>1. CASE q = p
        BY <1>3, <3>1
      <3>2. CASE q # p
        <4>1. prod'[q] = prod[q] /\ prod[q].ct \in Nat
          BY <2>1, <3>2, UniFacts
        <4>2. policy = "sm" => prod[q].pc \notin {"room", "claim", "unflag"}
          BY DEF UniInv, Single
        <4> QED BY <1>3, <4>1, <4>2, UniFacts DEF UniInv, ProdLocal
      <3> QED BY <3>1, <3>2
    <2>10. ConsLocal' /\ OnePop'
      BY <1>1 DEF UniInv, ConsLocal, OnePop
    <2>11. Single'
      BY <1>1, <1>3, <2>1 DEF UniInv, Single, UniTypeOK
    <2> QED BY <2>3, <2>4, <2>5, <2>6, <2>7, <2>8, <2>9, <2>10, <2>11 DEF UniInv
  <1>4. CASE push_single(p) /\ prod[p].pc = "push" /\ prod'[p].pc # "full"
    <2>1. /\ policy = "sm" /\ IndexOf(uwt + 1) # IndexOf(urd) /\ UNCHANGED uct
          /\ prod' = [prod EXCEPT ![p].pc = "fill", ![p].ct = uwt]
      <3>1. prod[p].pc = "push" /\ prod[p] \in [pc : ProdPlaces, ct : Nat, flag : Int]
        BY <1>4, UniFacts
      <3>2. [prod EXCEPT ![p].pc = "full"][p].pc = "full"
        BY <3>1, UniFacts
      <3> QED BY <1>4, <3>1, <3>2 DEF push_single, Prod
    <2>2. /\ ProdAlone(p) /\ prod'[p].pc = "fill" /\ prod'[p].ct = uwt
      BY <2>1, UniFacts DEF ProdAlone, ProdPlaces
    <2>3. uwt + 1 < urd + RingSize
      <3>1. uwt + 1 # urd + RingSize
        BY <2>1, UniFacts, Slot
      <3> QED BY <3>1, UniFacts DEF UniInv, Window
    <2> QED BY <1>3, <1>4, <2>1, <2>2, <2>3, UniFacts DEF Writing, ProdMoving
  <1>5. CASE push_claim(p) /\ prod'[p].pc = "fill"
    <2>1. Prod(p, "claim", "fill") /\ uct = prod[p].ct /\ uct' = uct + 1
      <3>1. Prod(p, "claim", "push") => prod'[p].pc = "push"
        BY ProdMove DEF ProdPlaces
      <3> QED BY <1>5, <3>1 DEF push_claim
    <2>2. /\ ProdAlone(p) /\ prod[p].pc = "claim" /\ prod'[p].pc = "fill" /\ prod'[p].ct = uct
      BY <2>1, ProdMove DEF ProdPlaces
    <2>3. policy = "mm" /\ uct + 1 < urd + RingSize
      BY <2>1, <2>2, UniFacts DEF UniInv, Single, ProdLocal
    <2> QED BY <1>3, <2>1, <2>2, <2>3, UniFacts DEF Writing, ProdMoving
  <1> QED BY <1>2, <1>4, <1>5

\* The position a writer has: where it is, whose slots are others.
LEMMA OwnPosition ==
  ASSUME UniInv, NEW p \in UniProducers, Writing(p)
  PROVE  /\ prod[p].ct \in Nat /\ IndexOf(prod[p].ct) \in Slots
         /\ uwt <= prod[p].ct /\ urd <= prod[p].ct /\ prod[p].ct < urd + RingSize
         /\ policy = "mm" => prod[p].ct < uct
         /\ \A i \in Nat : urd <= i /\ i < urd + RingSize /\ i # prod[p].ct
                             => IndexOf(i) # IndexOf(prod[p].ct)
         /\ \A q \in UniProducers \ {p} : Writing(q) => prod[q].ct # prod[p].ct
         /\ \A q \in UniProducers : ProdMoving(q) => prod[q].ct # prod[p].ct
         /\ \A r \in UniConsumers : ConsMoving(r) => cons[r].wt # prod[p].ct
  <1>1. prod[p].ct \in Nat /\ IndexOf(prod[p].ct) \in Slots
    BY UniFacts, Slot
  <1>2. /\ uwt <= prod[p].ct /\ prod[p].ct + 1 < urd + RingSize
        /\ policy = "mm" => prod[p].ct < uct
    BY DEF UniInv, Writers
  <1>3. urd <= prod[p].ct /\ prod[p].ct < urd + RingSize
    BY <1>1, <1>2, UniFacts DEF UniInv, Window
  <1>4. \A i \in Nat : urd <= i /\ i < urd + RingSize /\ i # prod[p].ct
                             => IndexOf(i) # IndexOf(prod[p].ct)
    BY <1>1, <1>3, UniFacts, Slot
  <1>5. \A q \in UniProducers \ {p} : Writing(q) => prod[q].ct # prod[p].ct
    BY DEF UniInv, Writers
  <1>6. /\ \A q \in UniProducers : ProdMoving(q) => prod[q].ct # prod[p].ct
        /\ \A r \in UniConsumers : ConsMoving(r) => cons[r].wt # prod[p].ct
    BY DEF UniInv, Movers
  <1> QED BY <1>1, <1>2, <1>3, <1>4, <1>5, <1>6

\* Writing an element tears only the position the writer has.
LEMMA PushWrites ==
  ASSUME UniInv, NEW p \in UniProducers, push_fill(p)
  PROVE  UniInv'
  <1>1. UNCHANGED <<policy, uwt, urd, uct, cons>>
    BY DEF push_fill
  <1>2. PICK c \in Nat, v \in Int :
          /\ c = prod[p].ct /\ elems' = [elems EXCEPT ![IndexOf(c)].data = v]
          /\ ProdAlone(p) /\ Writing(p) /\ Writing(p)' /\ ~ProdMoving(p) /\ ~ProdMoving(p)'
          /\ prod'[p].ct = c /\ prod'[p].pc \in {"filling", "flag"}
          /\ prod'[p].pc = "flag" => v = c
    <2>1. prod[p].ct \in Nat /\ Torn \in Int
      BY UniFacts DEF Torn
    <2>2. CASE Prod(p, "fill", "filling") /\ Data(prod[p].ct, Torn)
      <3>1. /\ ProdAlone(p) /\ prod[p].pc = "fill" /\ prod'[p].pc = "filling"
            /\ prod'[p].ct = prod[p].ct
        BY <2>2, ProdMove DEF ProdPlaces
      <3>2. elems' = [elems EXCEPT ![IndexOf(prod[p].ct)].data = Torn]
        BY <2>2 DEF Data
      <3> QED BY <2>1, <3>1, <3>2 DEF Writing, ProdMoving
    <2>3. CASE Prod(p, "filling", "flag") /\ Data(prod[p].ct, prod[p].ct)
      <3>1. /\ ProdAlone(p) /\ prod[p].pc = "filling" /\ prod'[p].pc = "flag"
            /\ prod'[p].ct = prod[p].ct
        BY <2>3, ProdMove DEF ProdPlaces
      <3>2. elems' = [elems EXCEPT ![IndexOf(prod[p].ct)].data = prod[p].ct]
        BY <2>3 DEF Data
      <3>3. prod[p].ct \in Int
        BY <2>1
      <3> USE <2>1, <3>3
      <3> WITNESS prod[p].ct \in Nat, prod[p].ct \in Int
      <3> QED BY <2>1, <3>1, <3>2 DEF Writing, ProdMoving
    <2> QED BY <2>2, <2>3 DEF push_fill
  <1>3. /\ IndexOf(c) \in Slots /\ uwt <= c /\ urd <= c /\ c < urd + RingSize
        /\ \A i \in Nat : urd <= i /\ i < urd + RingSize /\ i # c => IndexOf(i) # IndexOf(c)
        /\ \A q \in UniProducers \ {p} : Writing(q) => prod[q].ct # c
        /\ \A q \in UniProducers : ProdMoving(q) => prod[q].ct # c
        /\ \A r \in UniConsumers : ConsMoving(r) => cons[r].wt # c
    BY <1>2, OwnPosition
  <1>4. /\ elems' \in [Slots -> Elements]
        /\ \A s \in Slots : /\ elems'[s].flag = elems[s].flag
                            /\ s # IndexOf(c) => elems'[s].data = elems[s].data
        /\ elems'[IndexOf(c)].data = v
    BY <1>2, <1>3, UniFacts DEF Elements
  <1>5. \A q \in UniProducers : /\ (Writing(q)' <=> Writing(q))
                                /\ (ProdMoving(q)' <=> ProdMoving(q))
                                /\ q # p => prod'[q] = prod[q]
                                /\ prod'[q].ct = prod[q].ct
    BY <1>2 DEF ProdAlone, Writing, ProdMoving
  <1>6. \A r \in UniConsumers : ConsMoving(r)' <=> ConsMoving(r)
    BY <1>1 DEF ConsMoving
  <1>7. \A i \in Nat : urd <= i /\ i < urd + RingSize /\ i # c
                         => elems'[IndexOf(i)].data = elems[IndexOf(i)].data
    BY <1>3, <1>4, Slot
  <1>8. UniTypeOK' /\ Window'
    BY <1>1, <1>2, <1>4 DEF UniInv, UniTypeOK, Window, ProdAlone
  <1>9. Kept'
    <2> SUFFICES ASSUME NEW i \in Nat, urd <= i, i < uwt PROVE elems'[IndexOf(i)].data = i
      BY <1>1 DEF Kept
    <2>1. i < urd + RingSize /\ i # c
      BY <1>3, UniFacts DEF UniInv, Window
    <2> QED BY <1>7, <2>1 DEF UniInv, Kept
  <1>10. Writers'
    <2>1. ASSUME NEW q \in UniProducers, Writing(q)
          PROVE  /\ uwt <= prod[q].ct /\ prod[q].ct + 1 < urd + RingSize
                 /\ policy = "mm" => prod[q].ct < uct
                 /\ policy = "sm" => prod[q].ct = uwt
                 /\ prod'[q].pc = "flag" => elems'[IndexOf(prod[q].ct)].data = prod[q].ct
      <3>1. q = p => (prod'[q].pc = "flag" => elems'[IndexOf(prod[q].ct)].data = prod[q].ct)
        BY <1>2, <1>4
      <3>2. q # p => elems'[IndexOf(prod[q].ct)].data = elems[IndexOf(prod[q].ct)].data
        BY <1>3, <1>7, <2>1, OwnPosition
      <3> QED BY <1>5, <2>1, <3>1, <3>2 DEF UniInv, Writers
    <2> QED BY <1>1, <1>5, <2>1 DEF UniInv, Writers
  <1>11. Flags'
    <2> SUFFICES ASSUME NEW s \in Slots, elems[s].flag # NoFlag
                 PROVE  LET f == elems[s].flag IN
                        /\ policy = "mm" /\ f \in Nat /\ uwt <= f /\ f < uct /\ IndexOf(f) = s
                        /\ elems'[s].data = f
                        /\ \A q \in UniProducers : Writing(q)' \/ ProdMoving(q)' => prod'[q].ct # f
                        /\ \A r \in UniConsumers : ConsMoving(r)' => cons[r].wt # f
      BY <1>1, <1>4 DEF Flags
    <2>1. PICK f \in Nat : /\ f = elems[s].flag /\ policy = "mm" /\ uwt <= f /\ f < uct
                           /\ IndexOf(f) = s /\ elems[s].data = f
                           /\ \A q \in UniProducers : Writing(q) \/ ProdMoving(q) => prod[q].ct # f
                           /\ \A r \in UniConsumers : ConsMoving(r) => cons[r].wt # f
      BY DEF UniInv, Flags
    <2>2. urd <= f /\ f < urd + RingSize /\ f # c
      BY <1>2, <2>1, UniFacts DEF UniInv, Window
    <2>3. elems'[s].data = f
      BY <1>7, <2>1, <2>2
    <2> QED BY <1>5, <1>6, <2>1, <2>3
  <1>12. Movers'
    <2>1. (\E q \in UniProducers : ProdMoving(q)) \/ (\E r \in UniConsumers : ConsMoving(r))
            => elems'[IndexOf(uwt)].data = elems[IndexOf(uwt)].data
      <3> SUFFICES ASSUME (\E q \in UniProducers : ProdMoving(q)) \/ (\E r \in UniConsumers : ConsMoving(r))
                   PROVE  uwt # c
        BY <1>7, UniFacts DEF UniInv, Window
      <3> QED BY <1>3 DEF UniInv, Movers
    <2> QED BY <1>1, <1>5, <1>6, <2>1 DEF UniInv, Movers
  <1>13. Covered'
    <2>1. \A i \in Nat : elems'[IndexOf(i)].flag = elems[IndexOf(i)].flag
      BY <1>4, Slot
    <2> QED BY <1>1, <1>5, <1>6, <2>1 DEF UniInv, Covered
  <1>14. ProdLocal'
    BY <1>1, <1>2, <1>5 DEF UniInv, ProdLocal
  <1>15. ConsLocal' /\ OnePop'
    BY <1>1 DEF UniInv, ConsLocal, OnePop
  <1>16. Single'
    <2>1. prod[p].pc # "idle" /\ prod'[p].pc # "idle"
      BY <1>2 DEF Writing
    <2> QED BY <1>1, <1>2, <1>5, <2>1 DEF UniInv, Single
  <1> QED BY <1>8, <1>9, <1>10, <1>11, <1>12, <1>13, <1>14, <1>15, <1>16 DEF UniInv

\* A writer hands its position over to the flag of the element.
LEMMA PushFlags ==
  ASSUME UniInv, NEW p \in UniProducers, push_flag(p)
  PROVE  UniInv'
  <1>1. policy = "mm" /\ UNCHANGED <<policy, uwt, urd, uct, cons>>
    BY DEF push_flag
  <1>2. PICK c \in Nat :
          /\ c = prod[p].ct /\ elems' = [elems EXCEPT ![IndexOf(c)].flag = c]
          /\ ProdAlone(p) /\ prod[p].pc = "flag" /\ prod'[p].pc = "next" /\ Writing(p)
    BY ProdMove, UniFacts DEF push_flag, Writing, ProdPlaces
  <1>3. /\ IndexOf(c) \in Slots /\ uwt <= c /\ urd <= c /\ c < urd + RingSize /\ c < uct
        /\ \A i \in Nat : urd <= i /\ i < urd + RingSize /\ i # c => IndexOf(i) # IndexOf(c)
        /\ \A q \in UniProducers \ {p} : Writing(q) => prod[q].ct # c
        /\ \A q \in UniProducers : ProdMoving(q) => prod[q].ct # c
        /\ \A r \in UniConsumers : ConsMoving(r) => cons[r].wt # c
    BY <1>1, <1>2, OwnPosition
  <1>4. elems[IndexOf(c)].data = c
    BY <1>2 DEF UniInv, Writers
  <1>5. /\ elems' \in [Slots -> Elements]
        /\ \A s \in Slots : /\ elems'[s].data = elems[s].data
                            /\ s # IndexOf(c) => elems'[s].flag = elems[s].flag
        /\ elems'[IndexOf(c)].flag = c
    BY <1>2, <1>3, UniFacts DEF Elements
  <1>6. /\ \A q \in UniProducers : q # p => /\ (Writing(q)' <=> Writing(q))
                                          /\ prod'[q] = prod[q]
        /\ \A q \in UniProducers : ProdMoving(q)' <=> ProdMoving(q)
        /\ \A q \in UniProducers : ProdMoving(q) => prod'[q] = prod[q]
        /\ ~Writing(p)' /\ ~ProdMoving(p)
    BY <1>2 DEF ProdAlone, Writing, ProdMoving
  <1>7. \A r \in UniConsumers : ConsMoving(r)' <=> ConsMoving(r)
    BY <1>1 DEF ConsMoving
  <1>8. \A i \in Nat : elems'[IndexOf(i)].data = elems[IndexOf(i)].data
    BY <1>5, Slot
  <1>9. UniTypeOK' /\ Window'
    BY <1>1, <1>2, <1>5 DEF UniInv, UniTypeOK, Window, ProdAlone
  <1>10. Kept'
    BY <1>1, <1>8 DEF UniInv, Kept
  <1>11. Writers'
    <2>1. \A q \in UniProducers : q # p /\ Writing(q) => prod[q].ct \in Nat
      BY UniFacts
    <2> QED BY <1>1, <1>6, <1>8, <2>1 DEF UniInv, Writers
  <1>12. Flags'
    <2> SUFFICES ASSUME NEW s \in Slots, elems'[s].flag # NoFlag
                 PROVE  LET f == elems'[s].flag IN
                        /\ policy = "mm" /\ f \in Nat /\ uwt <= f /\ f < uct /\ IndexOf(f) = s
                        /\ elems'[s].data = f
                        /\ \A q \in UniProducers : Writing(q)' \/ ProdMoving(q)' => prod'[q].ct # f
                        /\ \A r \in UniConsumers : ConsMoving(r)' => cons[r].wt # f
      BY <1>1 DEF Flags
    <2>1. CASE s = IndexOf(c)
      BY <1>1, <1>3, <1>4, <1>5, <1>6, <1>7, <2>1
    <2>2. CASE s # IndexOf(c)
      <3>1. elems'[s].flag = elems[s].flag /\ elems'[s].data = elems[s].data
        BY <1>5, <2>2
      <3> QED BY <1>1, <1>6, <1>7, <3>1 DEF UniInv, Flags
    <2> QED BY <2>1, <2>2
  <1>13. Movers'
    <2>1. elems'[IndexOf(uwt)].data = elems[IndexOf(uwt)].data
      BY <1>8, UniFacts
    <2> QED BY <1>1, <1>6, <1>7, <2>1 DEF UniInv, Movers
  <1>14. Covered'
    <2> SUFFICES ASSUME NEW i \in Nat, uwt <= i, i < uct, i # c
                 PROVE  \/ elems'[IndexOf(i)].flag = i
                        \/ \E q \in UniProducers : (Writing(q)' \/ ProdMoving(q)') /\ prod'[q].ct = i
                        \/ \E r \in UniConsumers : ConsMoving(r)' /\ cons[r].wt = i
      BY <1>1, <1>5 DEF Covered
    <2>1. elems'[IndexOf(i)].flag = elems[IndexOf(i)].flag
      <3>1. urd <= i /\ i < urd + RingSize
        BY <1>1, UniFacts DEF UniInv, Window
      <3> QED BY <1>3, <1>5, <3>1, Slot
    <2>2. \/ elems[IndexOf(i)].flag = i
          \/ \E q \in UniProducers : (Writing(q) \/ ProdMoving(q)) /\ prod[q].ct = i
          \/ \E r \in UniConsumers : ConsMoving(r) /\ cons[r].wt = i
      BY <1>1 DEF UniInv, Covered
    <2> QED BY <1>2, <1>6, <1>7, <2>1, <2>2
  <1>15. ProdLocal'
    BY <1>1, <1>2, <1>6 DEF UniInv, ProdLocal
  <1>16. ConsLocal' /\ OnePop' /\ Single'
    BY <1>1 DEF UniInv, ConsLocal, OnePop, Single
  <1> QED BY <1>9, <1>10, <1>11, <1>12, <1>13, <1>14, <1>15, <1>16 DEF UniInv

\* The single writer moves wt_ over the element it has written.
LEMMA PushSingleEnds ==
  ASSUME UniInv, NEW p \in UniProducers, push_single(p), prod[p].pc = "flag"
  PROVE  UniInv'
  <1>1. /\ policy = "sm" /\ uwt' = uwt + 1 /\ UNCHANGED <<policy, urd, uct, elems, cons>>
        /\ ProdAlone(p) /\ prod'[p].pc = "idle"
    BY ProdMove DEF push_single, ProdPlaces
  <1>2. /\ uwt + 1 < urd + RingSize /\ urd <= uwt /\ elems[IndexOf(uwt)].data = uwt
    BY <1>1, UniFacts DEF UniInv, Writers, Window, Writing
  <1>3. \A q \in UniProducers : prod'[q].pc = "idle" /\ ~Writing(q)' /\ ~ProdMoving(q)'
    BY <1>1 DEF UniInv, Single, ProdAlone, Writing, ProdMoving
  <1>4. \A r \in UniConsumers : ~ConsMoving(r)'
    BY <1>1 DEF UniInv, Single, ConsMoving
  <1>5. UniTypeOK' /\ Window'
    BY <1>1, <1>2, UniFacts DEF UniTypeOK, Window, ProdAlone
  <1>6. Kept'
    BY <1>1, <1>2, UniFacts DEF UniInv, Kept
  <1>7. Writers' /\ Movers' /\ Covered'
    BY <1>1, <1>3, <1>4 DEF Writers, Movers, Covered
  <1>8. Flags'
    BY <1>1 DEF UniInv, Flags
  <1>9. ProdLocal' /\ OnePop' /\ Single'
    BY <1>1, <1>3 DEF UniInv, ProdLocal, OnePop, Single
  <1>10. ConsLocal'
    BY <1>1, UniFacts DEF UniInv, ConsLocal
  <1> QED BY <1>5, <1>6, <1>7, <1>8, <1>9, <1>10 DEF UniInv

\* A flag at a position not after wt_ is the flag of the position at wt_, and no
\* one else has that position.
LEMMA FlagAtWt ==
  ASSUME UniInv, NEW w \in Nat, w <= uwt, elems[IndexOf(w)].flag = w
  PROVE  /\ policy = "mm" /\ w = uwt /\ uwt < uct /\ elems[IndexOf(uwt)].data = uwt
         /\ IndexOf(uwt) \in Slots
         /\ \A i \in Nat : uwt <= i /\ i < uct /\ i # uwt => IndexOf(i) # IndexOf(uwt)
         /\ \A q \in UniProducers : ~ProdMoving(q)
         /\ \A r \in UniConsumers : ~ConsMoving(r)
         /\ \A q \in UniProducers : Writing(q) => prod[q].ct # uwt
  <1>1. IndexOf(w) \in Slots /\ elems[IndexOf(w)].flag # NoFlag
    BY Slot DEF NoFlag
  <1>2. /\ policy = "mm" /\ uwt <= w /\ w < uct /\ elems[IndexOf(w)].data = w
        /\ \A p \in UniProducers : Writing(p) \/ ProdMoving(p) => prod[p].ct # w
        /\ \A r \in UniConsumers : ConsMoving(r) => cons[r].wt # w
    BY <1>1 DEF UniInv, Flags
  <1>3. w = uwt
    BY <1>2, UniFacts
  <1>4. \A i \in Nat : uwt <= i /\ i < uct /\ i # uwt => IndexOf(i) # IndexOf(uwt)
    BY <1>2, UniFacts, Slot DEF UniInv, Window
  <1>5. /\ \A q \in UniProducers : ~ProdMoving(q)
        /\ \A r \in UniConsumers : ~ConsMoving(r)
    BY <1>2, <1>3 DEF UniInv, Movers
  <1> QED BY <1>1, <1>2, <1>3, <1>4, <1>5

\* Whoever takes the flag at wt_ down is the only one to move wt_.
LEMMA FlagTakenDown ==
  ASSUME UniInv, UNCHANGED <<policy, uwt, urd, uct>>,
         policy = "mm", uwt < uct, elems[IndexOf(uwt)].data = uwt, IndexOf(uwt) \in Slots,
         \A i \in Nat : uwt <= i /\ i < uct /\ i # uwt => IndexOf(i) # IndexOf(uwt),
         \A q \in UniProducers : ~ProdMoving(q),
         \A r \in UniConsumers : ~ConsMoving(r),
         \A q \in UniProducers : Writing(q) => prod[q].ct # uwt,
         elems' = [elems EXCEPT ![IndexOf(uwt)].flag = NoFlag],
         \A q \in UniProducers : /\ (Writing(q)' <=> Writing(q))
                                 /\ Writing(q) => prod'[q] = prod[q]
                                 /\ ProdMoving(q)' => prod'[q].ct = uwt,
         \A r \in UniConsumers : ConsMoving(r)' => cons'[r].wt = uwt,
         \/ /\ \E p \in UniProducers : ProdMoving(p)' /\ \A q \in UniProducers : ProdMoving(q)' => q = p
            /\ \A r \in UniConsumers : ~ConsMoving(r)'
         \/ /\ \E p \in UniConsumers : ConsMoving(p)' /\ \A q \in UniConsumers : ConsMoving(q)' => q = p
            /\ \A r \in UniProducers : ~ProdMoving(r)'
  PROVE  /\ elems' \in [Slots -> Elements]
         /\ Window' /\ Kept' /\ Writers' /\ Flags' /\ Movers' /\ Covered'
  <1>1. /\ elems' \in [Slots -> Elements]
        /\ \A s \in Slots : /\ elems'[s].data = elems[s].data
                            /\ s # IndexOf(uwt) => elems'[s].flag = elems[s].flag
        /\ elems'[IndexOf(uwt)].flag = NoFlag
    BY UniFacts DEF Elements, NoFlag
  <1>2. \A i \in Nat : elems'[IndexOf(i)].data = elems[IndexOf(i)].data
    BY <1>1, Slot
  <1>3. Window' /\ Kept'
    BY <1>2 DEF UniInv, Window, Kept
  <1>4. Writers'
    <2>1. ASSUME NEW q \in UniProducers, Writing(q)
          PROVE elems'[IndexOf(prod[q].ct)].data = elems[IndexOf(prod[q].ct)].data
      BY <1>2, UniFacts
    <2> QED BY <2>1 DEF UniInv, Writers
  <1>5. Flags'
    <2> SUFFICES ASSUME NEW s \in Slots, elems'[s].flag # NoFlag
                 PROVE  LET f == elems'[s].flag IN
                        /\ policy = "mm" /\ f \in Nat /\ uwt <= f /\ f < uct /\ IndexOf(f) = s
                        /\ elems'[s].data = f
                        /\ \A q \in UniProducers : Writing(q)' \/ ProdMoving(q)' => prod'[q].ct # f
                        /\ \A r \in UniConsumers : ConsMoving(r)' => cons'[r].wt # f
      BY DEF Flags
    <2>1. s # IndexOf(uwt) /\ elems'[s].flag = elems[s].flag /\ elems'[s].data = elems[s].data
      BY <1>1
    <2>2. PICK f \in Nat : /\ f = elems[s].flag /\ policy = "mm" /\ uwt <= f /\ f < uct
                           /\ IndexOf(f) = s /\ elems[s].data = f
                           /\ \A q \in UniProducers : Writing(q) \/ ProdMoving(q) => prod[q].ct # f
      BY <2>1 DEF UniInv, Flags
    <2>3. f # uwt
      BY <2>1, <2>2
    <2> QED BY <2>1, <2>2, <2>3
  <1>6. Movers'
    <2>1. elems'[IndexOf(uwt)].data = uwt
      BY <1>1
    <2>2. \A q \in UniProducers : Writing(q)' => prod'[q].ct # uwt
      OBVIOUS
    <2> QED BY <2>1, <2>2 DEF Movers
  <1>7. Covered'
    <2> SUFFICES ASSUME NEW i \in Nat, uwt <= i, i < uct
                 PROVE  \/ elems'[IndexOf(i)].flag = i
                        \/ \E q \in UniProducers : (Writing(q)' \/ ProdMoving(q)') /\ prod'[q].ct = i
                        \/ \E r \in UniConsumers : ConsMoving(r)' /\ cons'[r].wt = i
      BY DEF Covered
    <2>1. CASE i = uwt
      BY <2>1
    <2>2. CASE i # uwt
      <3>1. elems'[IndexOf(i)].flag = elems[IndexOf(i)].flag
        BY <1>1, <2>2, Slot
      <3>2. \/ elems[IndexOf(i)].flag = i
            \/ \E q \in UniProducers : Writing(q) /\ prod[q].ct = i
        BY DEF UniInv, Covered
      <3> QED BY <3>1, <3>2
    <2> QED BY <2>1, <2>2
  <1> QED BY <1>1, <1>3, <1>4, <1>5, <1>6, <1>7

\* Moving wt_ over the position whose flag was taken down.
LEMMA WtMoves ==
  ASSUME UniInv, UNCHANGED <<policy, urd, uct, elems>>, uwt' = uwt + 1,
         policy = "mm", uwt < uct, elems[IndexOf(uwt)].data = uwt,
         \A s \in Slots : elems[s].flag # uwt,
         \A q \in UniProducers : Writing(q) => prod[q].ct # uwt,
         \A q \in UniProducers : /\ (Writing(q)' <=> Writing(q))
                                 /\ Writing(q) => prod'[q] = prod[q]
                                 /\ ProdMoving(q) => prod[q].ct = uwt
                                 /\ ~ProdMoving(q)',
         \A r \in UniConsumers : ~ConsMoving(r)' /\ (ConsMoving(r) => cons[r].wt = uwt)
  PROVE  Window' /\ Kept' /\ Writers' /\ Flags' /\ Movers' /\ Covered'
  <1>0. \A i \in Nat : /\ (i < uwt' <=> i < uwt \/ i = uwt)
                       /\ (uwt <= i /\ i # uwt <=> uwt' <= i)
    <2>1. uwt \in Nat /\ uwt' = uwt + 1
      BY UniFacts
    <2>2. \A i, w, x \in Nat : x = w + 1 => /\ (i < x <=> i < w \/ i = w)
                                           /\ (w <= i /\ i # w <=> x <= i)
      OBVIOUS
    <2>3. uwt' \in Nat
      BY <2>1
    <2> QED BY <2>1, <2>2, <2>3
  <1>1. Window'
    BY UniFacts DEF UniInv, Window
  <1>2. Kept'
    BY <1>0 DEF UniInv, Kept
  <1>3. Writers'
    <2>1. ASSUME NEW q \in UniProducers, Writing(q) PROVE uwt' <= prod[q].ct
      <3>1. prod[q].ct \in Nat /\ uwt <= prod[q].ct
        BY <2>1, OwnPosition
      <3> QED BY <1>0, <2>1, <3>1
    <2> QED BY <2>1 DEF UniInv, Writers
  <1>4. Flags'
    <2> SUFFICES ASSUME NEW s \in Slots, elems[s].flag # NoFlag
                 PROVE  LET f == elems[s].flag IN
                        /\ policy = "mm" /\ f \in Nat /\ uwt' <= f /\ f < uct /\ IndexOf(f) = s
                        /\ elems[s].data = f
                        /\ \A q \in UniProducers : Writing(q)' \/ ProdMoving(q)' => prod'[q].ct # f
                        /\ \A r \in UniConsumers : ConsMoving(r)' => cons'[r].wt # f
      BY DEF Flags
    <2>1. PICK f \in Nat : /\ f = elems[s].flag /\ policy = "mm" /\ uwt <= f /\ f < uct
                           /\ IndexOf(f) = s /\ elems[s].data = f
                           /\ \A q \in UniProducers : Writing(q) \/ ProdMoving(q) => prod[q].ct # f
      BY DEF UniInv, Flags
    <2>2. uwt' <= f
      BY <1>0, <2>1
    <2> QED BY <2>1, <2>2
  <1>5. Movers'
    BY DEF Movers
  <1>6. Covered'
    <2> SUFFICES ASSUME NEW i \in Nat, uwt' <= i, i < uct
                 PROVE  \/ elems[IndexOf(i)].flag = i
                        \/ \E q \in UniProducers : (Writing(q)' \/ ProdMoving(q)') /\ prod'[q].ct = i
                        \/ \E r \in UniConsumers : ConsMoving(r)' /\ cons'[r].wt = i
      BY DEF Covered
    <2>1. uwt <= i /\ i # uwt
      BY UniFacts
    <2>2. \/ elems[IndexOf(i)].flag = i
          \/ \E q \in UniProducers : (Writing(q) \/ ProdMoving(q)) /\ prod[q].ct = i
          \/ \E r \in UniConsumers : ConsMoving(r) /\ cons[r].wt = i
      BY <2>1 DEF UniInv, Covered
    <2> QED BY <2>1, <2>2
  <1> QED BY <1>1, <1>2, <1>3, <1>4, <1>5, <1>6

\* A writer takes the flag at wt_ down.
LEMMA PushTakesDown ==
  ASSUME UniInv, NEW p \in UniProducers, push_unflag(p), prod'[p].pc = "move"
  PROVE  UniInv'
  <1>1. Prod(p, "unflag", "move") /\ UNCHANGED <<policy, uwt, urd, uct, cons>>
    BY ProdMove DEF push_unflag, ProdPlaces
  <1>2. /\ ProdAlone(p) /\ prod[p].pc = "unflag" /\ prod'[p].ct = prod[p].ct
    BY <1>1, ProdMove DEF ProdPlaces
  <1>3. PICK w \in Nat : w = prod[p].ct /\ w <= uwt /\ prod[p].flag = w
    BY <1>2, UniFacts DEF UniInv, ProdLocal
  <1>4. elems[IndexOf(w)].flag = w /\ elems' = [elems EXCEPT ![IndexOf(w)].flag = NoFlag]
    BY <1>2, <1>3, ProdMove DEF push_unflag, ProdPlaces
  <1>5. /\ policy = "mm" /\ w = uwt /\ uwt < uct /\ elems[IndexOf(uwt)].data = uwt
        /\ IndexOf(uwt) \in Slots
        /\ \A i \in Nat : uwt <= i /\ i < uct /\ i # uwt => IndexOf(i) # IndexOf(uwt)
        /\ \A q \in UniProducers : ~ProdMoving(q)
        /\ \A r \in UniConsumers : ~ConsMoving(r)
        /\ \A q \in UniProducers : Writing(q) => prod[q].ct # uwt
    BY <1>3, <1>4, FlagAtWt
  <1>6. /\ \A q \in UniProducers : /\ (Writing(q)' <=> Writing(q))
                                   /\ Writing(q) => prod'[q] = prod[q]
                                   /\ ProdMoving(q)' => q = p
        /\ ProdMoving(p)' /\ prod'[p].ct = uwt
    BY <1>2, <1>3, <1>5 DEF ProdAlone, Writing, ProdMoving
  <1>7. \A r \in UniConsumers : ~ConsMoving(r)'
    BY <1>1, <1>5 DEF ConsMoving
  <1>8. /\ elems' \in [Slots -> Elements]
        /\ Window' /\ Kept' /\ Writers' /\ Flags' /\ Movers' /\ Covered'
    BY <1>1, <1>4, <1>5, <1>6, <1>7, FlagTakenDown
  <1>9. UniTypeOK'
    BY <1>1, <1>2, <1>8 DEF UniInv, UniTypeOK, ProdAlone
  <1>10. ProdLocal'
    BY <1>1, <1>2 DEF UniInv, ProdLocal, ProdAlone
  <1>11. ConsLocal' /\ OnePop' /\ Single'
    BY <1>1, <1>5 DEF UniInv, ConsLocal, OnePop, Single
  <1> QED BY <1>8, <1>9, <1>10, <1>11 DEF UniInv

\* A writer moves wt_.
LEMMA PushMoves ==
  ASSUME UniInv, NEW p \in UniProducers, push_move(p)
  PROVE  UniInv'
  <1>1. /\ policy = "mm" /\ prod[p].ct = uwt /\ uwt < uct /\ elems[IndexOf(uwt)].data = uwt
        /\ ProdMoving(p)
    BY DEF push_move, UniInv, Movers, ProdMoving
  <1>2. /\ UNCHANGED <<policy, urd, uct, elems, cons>> /\ uwt' = uwt + 1
        /\ ProdAlone(p) /\ prod'[p].pc = "next"
    BY <1>1, UniFacts DEF push_move, ProdAlone, ProdPlaces
  <1>3. /\ \A q \in UniProducers : ProdMoving(q) => q = p
        /\ \A r \in UniConsumers : ~ConsMoving(r)
        /\ \A q \in UniProducers : Writing(q) => prod[q].ct # uwt
    BY <1>1 DEF UniInv, Movers
  <1>4. \A s \in Slots : elems[s].flag # uwt
    <2>1. uwt # NoFlag
      BY UniFacts DEF NoFlag
    <2> QED BY <1>1, <2>1 DEF UniInv, Flags
  <1>5. /\ \A q \in UniProducers : /\ (Writing(q)' <=> Writing(q))
                                   /\ Writing(q) => prod'[q] = prod[q]
                                   /\ ProdMoving(q) => prod[q].ct = uwt
                                   /\ ~ProdMoving(q)'
    BY <1>1, <1>2, <1>3 DEF ProdAlone, Writing, ProdMoving
  <1>6. \A r \in UniConsumers : ~ConsMoving(r)' /\ (ConsMoving(r) => cons[r].wt = uwt)
    BY <1>2, <1>3 DEF ConsMoving
  <1>7. Window' /\ Kept' /\ Writers' /\ Flags' /\ Movers' /\ Covered'
    BY <1>1, <1>2, <1>3, <1>4, <1>5, <1>6, WtMoves
  <1>8. UniTypeOK'
    BY <1>2, UniFacts DEF UniTypeOK, ProdAlone
  <1>9. ProdLocal'
    <2> SUFFICES ASSUME NEW q \in UniProducers \ {p}
                 PROVE  /\ prod[q].pc \in {"room", "claim"} => prod[q].ct <= uct
                        /\ prod[q].pc = "claim" /\ prod[q].ct = uct => uct + 1 < urd + RingSize
                        /\ prod[q].pc = "unflag" => prod[q].flag = prod[q].ct /\ prod[q].ct <= uwt + 1
      BY <1>2 DEF ProdLocal, ProdAlone
    <2>1. prod[q].ct \in Nat
      BY UniFacts
    <2> QED BY <2>1, UniFacts DEF UniInv, ProdLocal
  <1>10. ConsLocal'
    <2>1. \A r \in UniConsumers : cons[r].wt \in Nat
      BY UniFacts
    <2> QED BY <1>2, <2>1, UniFacts DEF UniInv, ConsLocal
  <1>11. OnePop' /\ Single'
    BY <1>1, <1>2 DEF UniInv, OnePop, Single
  <1> QED BY <1>7, <1>8, <1>9, <1>10, <1>11 DEF UniInv

\* pop while it loads, tests, copies or gives up.
LEMMA PopLooks ==
  ASSUME UniInv, NEW r \in UniConsumers,
         \/ pop_load(r) \/ pop_test(r) \/ pop_help(r) \/ pop_copy(r) \/ pop_return(r)
         \/ (pop_unflag(r) \/ pop_take(r)) /\ cons'[r].pc = "pop"
  PROVE  UniInv'
  <1>1. UNCHANGED <<policy, uwt, uct, prod>>
    BY DEF pop_load, pop_test, pop_help, pop_copy, pop_return, pop_unflag, pop_take
  <1>2. CASE pop_load(r)
    <2>1. /\ ConsAlone(r) /\ cons[r].pc \in {"idle", "pop"} /\ cons'[r].pc = "loaded"
          /\ cons'[r].rd = urd /\ UNCHANGED <<urd, elems>>
      BY <1>2, UniFacts DEF pop_load, ConsAlone, ConsPlaces
    <2> QED BY <1>1, <2>1, UniFacts, ConsFrame
  <1>3. CASE pop_test(r)
    <2>1. UNCHANGED <<urd, elems>> /\ cons[r].rd \in Nat
      BY <1>3, UniFacts DEF pop_test
    <2>2. CASE IndexOf(cons[r].rd) # IndexOf(uwt)
      <3>1. Cons(r, "loaded", "copy")
        BY <1>3, <2>2 DEF pop_test
      <3>2. /\ ConsAlone(r) /\ cons[r].pc = "loaded" /\ cons'[r].pc = "copy"
            /\ cons'[r].rd = cons[r].rd
        BY <3>1, ConsMove DEF ConsPlaces
      <3>3. cons[r].rd <= urd /\ urd <= uwt
        BY <3>2 DEF UniInv, ConsLocal, Window
      <3>4. cons[r].rd = urd => urd < uwt
        <4>1. cons[r].rd = urd => urd # uwt
          BY <2>2
        <4>2. urd # uwt => urd < uwt
          BY <3>3, UniFacts
        <4> QED BY <4>1, <4>2
      <3> QED BY <1>1, <2>1, <3>2, <3>3, <3>4, ConsFrame
    <2>3. CASE IndexOf(cons[r].rd) = IndexOf(uwt) /\ policy = "sm"
      <3>1. Cons(r, "loaded", "idle")
        BY <1>3, <2>3 DEF pop_test
      <3>2. /\ ConsAlone(r) /\ cons[r].pc = "loaded" /\ cons'[r].pc = "idle"
        BY <3>1, ConsMove DEF ConsPlaces
      <3> QED BY <1>1, <2>1, <3>2, ConsFrame
    <2>4. CASE IndexOf(cons[r].rd) = IndexOf(uwt) /\ policy = "mm"
      <3>1. /\ cons[r].pc = "loaded"
            /\ cons' = [cons EXCEPT ![r].pc = "help", ![r].wt = uwt]
        BY <1>3, <2>4 DEF pop_test
      <3>2. ConsAlone(r) /\ cons'[r].pc = "help" /\ cons'[r].wt = uwt
        BY <3>1, UniFacts DEF ConsAlone, ConsPlaces
      <3> QED BY <1>1, <2>1, <2>4, <3>1, <3>2, UniFacts, ConsFrame
    <2> QED BY <2>2, <2>3, <2>4, UniFacts
  <1>4. CASE pop_help(r)
    <2>1. /\ ConsAlone(r) /\ cons[r].pc = "help" /\ cons'[r].pc \in {"idle", "unflag"}
          /\ cons'[r].pc = "unflag" => cons'[r].wt = cons[r].wt
          /\ UNCHANGED <<urd, elems>>
      BY <1>4, ConsMove DEF pop_help, ConsPlaces
    <2>2. cons[r].wt <= uwt /\ policy = "mm"
      BY <2>1, UniFacts DEF UniInv, ConsLocal, Single
    <2> QED BY <1>1, <2>1, <2>2, ConsFrame
  <1>5. CASE pop_copy(r)
    <2>1. /\ cons[r].pc = "copy" /\ UNCHANGED <<urd, elems>>
          /\ cons' = [cons EXCEPT ![r].pc = "take", ![r].buff = elems[IndexOf(cons[r].rd)].data]
      BY <1>5 DEF pop_copy
    <2>2. elems[IndexOf(cons[r].rd)].data \in Int /\ cons[r].rd \in Nat
      BY UniFacts, Slot DEF Elements
    <2>3. /\ ConsAlone(r) /\ cons'[r].pc = "take" /\ cons'[r].rd = cons[r].rd
          /\ cons'[r].buff = elems[IndexOf(cons[r].rd)].data
      BY <2>1, <2>2, UniFacts DEF ConsAlone, ConsPlaces
    <2>4. cons[r].rd <= urd /\ (cons[r].rd = urd => urd < uwt)
      BY <2>1 DEF UniInv, ConsLocal
    <2>5. cons[r].rd = urd => elems[IndexOf(cons[r].rd)].data = urd
      BY <2>4, UniFacts DEF UniInv, Kept
    <2> QED BY <1>1, <2>1, <2>3, <2>4, <2>5, ConsFrame
  <1>6. CASE pop_return(r)
    <2>1. ConsAlone(r) /\ cons[r].pc = "taken" /\ cons'[r].pc = "idle" /\ UNCHANGED <<urd, elems>>
      BY <1>6, ConsMove DEF pop_return, ConsPlaces
    <2> QED BY <1>1, <2>1, ConsFrame
  <1>7. CASE pop_unflag(r) /\ cons'[r].pc = "pop"
    <2>1. ConsAlone(r) /\ cons[r].pc = "unflag" /\ UNCHANGED <<urd, elems>>
      BY <1>7, ConsMove DEF pop_unflag, ConsPlaces
    <2> QED BY <1>1, <1>7, <2>1, ConsFrame
  <1>8. CASE pop_take(r) /\ cons'[r].pc = "pop"
    <2>1. ConsAlone(r) /\ cons[r].pc = "take" /\ UNCHANGED <<urd, elems>>
      BY <1>8, ConsMove DEF pop_take, ConsPlaces
    <2> QED BY <1>1, <1>8, <2>1, ConsFrame
  <1> QED BY <1>2, <1>3, <1>4, <1>5, <1>6, <1>7, <1>8

\* A reader takes the flag at wt_ down.
LEMMA PopTakesDown ==
  ASSUME UniInv, NEW r \in UniConsumers, pop_unflag(r), cons'[r].pc = "move"
  PROVE  UniInv'
  <1>1. UNCHANGED <<policy, uwt, urd, uct, prod>>
    BY DEF pop_unflag
  <1>2. /\ ConsAlone(r) /\ cons[r].pc = "unflag" /\ cons'[r].wt = cons[r].wt
    BY ConsMove DEF pop_unflag, ConsPlaces
  <1>3. PICK w \in Nat : w = cons[r].wt /\ w <= uwt
    BY <1>2, UniFacts DEF UniInv, ConsLocal
  <1>4. elems[IndexOf(w)].flag = w /\ elems' = [elems EXCEPT ![IndexOf(w)].flag = NoFlag]
    BY <1>2, <1>3, ConsMove DEF pop_unflag, ConsPlaces
  <1>5. /\ policy = "mm" /\ w = uwt /\ uwt < uct /\ elems[IndexOf(uwt)].data = uwt
        /\ IndexOf(uwt) \in Slots
        /\ \A i \in Nat : uwt <= i /\ i < uct /\ i # uwt => IndexOf(i) # IndexOf(uwt)
        /\ \A q \in UniProducers : ~ProdMoving(q)
        /\ \A q \in UniConsumers : ~ConsMoving(q)
        /\ \A q \in UniProducers : Writing(q) => prod[q].ct # uwt
    BY <1>3, <1>4, FlagAtWt
  <1>6. \A q \in UniProducers : /\ (Writing(q)' <=> Writing(q)) /\ ~ProdMoving(q)'
                                /\ prod'[q] = prod[q]
    BY <1>1, <1>5 DEF Writing, ProdMoving
  <1>7. /\ \A q \in UniConsumers : ConsMoving(q)' => q = r
        /\ ConsMoving(r)' /\ cons'[r].wt = uwt
    BY <1>2, <1>3, <1>5 DEF ConsAlone, ConsMoving
  <1>8. /\ elems' \in [Slots -> Elements]
        /\ Window' /\ Kept' /\ Writers' /\ Flags' /\ Movers' /\ Covered'
    BY <1>1, <1>4, <1>5, <1>6, <1>7, FlagTakenDown
  <1>9. UniTypeOK'
    BY <1>1, <1>2, <1>8 DEF UniInv, UniTypeOK, ConsAlone
  <1>10. ProdLocal' /\ Single'
    BY <1>1, <1>5 DEF UniInv, ProdLocal, Single
  <1>11. ConsLocal' /\ OnePop'
    BY <1>1, <1>2 DEF UniInv, ConsLocal, OnePop, ConsAlone
  <1> QED BY <1>8, <1>9, <1>10, <1>11 DEF UniInv

\* A reader moves wt_.
LEMMA PopMoves ==
  ASSUME UniInv, NEW r \in UniConsumers, pop_move(r)
  PROVE  UniInv'
  <1>1. ConsAlone(r) /\ cons[r].pc = "move" /\ cons'[r].pc = "pop"
    BY ConsMove DEF pop_move, ConsPlaces
  <1>2. /\ policy = "mm" /\ cons[r].wt = uwt /\ uwt < uct /\ elems[IndexOf(uwt)].data = uwt
        /\ ConsMoving(r)
    BY <1>1 DEF UniInv, Movers, ConsMoving
  <1>3. UNCHANGED <<policy, urd, uct, elems, prod>> /\ uwt' = uwt + 1
    BY <1>2 DEF pop_move
  <1>4. /\ \A q \in UniConsumers : ConsMoving(q) => q = r
        /\ \A q \in UniProducers : ~ProdMoving(q)
        /\ \A q \in UniProducers : Writing(q) => prod[q].ct # uwt
    BY <1>2 DEF UniInv, Movers
  <1>5. \A s \in Slots : elems[s].flag # uwt
    <2>1. uwt # NoFlag
      BY UniFacts DEF NoFlag
    <2> QED BY <1>2, <2>1 DEF UniInv, Flags
  <1>6. \A q \in UniProducers : /\ (Writing(q)' <=> Writing(q))
                                /\ Writing(q) => prod'[q] = prod[q]
                                /\ ProdMoving(q) => prod[q].ct = uwt
                                /\ ~ProdMoving(q)'
    BY <1>3, <1>4 DEF Writing, ProdMoving
  <1>7. \A q \in UniConsumers : ~ConsMoving(q)' /\ (ConsMoving(q) => cons[q].wt = uwt)
    BY <1>1, <1>2, <1>4 DEF ConsMoving, ConsAlone
  <1>8. Window' /\ Kept' /\ Writers' /\ Flags' /\ Movers' /\ Covered'
    BY <1>2, <1>3, <1>4, <1>5, <1>6, <1>7, WtMoves
  <1>9. UniTypeOK'
    BY <1>1, <1>3, UniFacts DEF UniTypeOK, ConsAlone
  <1>10. ProdLocal'
    <2>1. \A q \in UniProducers : prod[q].ct \in Nat
      BY UniFacts
    <2> QED BY <1>3, <2>1, UniFacts DEF UniInv, ProdLocal
  <1>11. ConsLocal'
    <2>1. \A q \in UniConsumers : cons[q].wt \in Nat
      BY UniFacts
    <2> QED BY <1>1, <1>3, <2>1, UniFacts DEF UniInv, ConsLocal, ConsAlone
  <1>12. OnePop' /\ Single'
    BY <1>1, <1>2, <1>3 DEF UniInv, OnePop, Single, ConsAlone
  <1> QED BY <1>8, <1>9, <1>10, <1>11, <1>12 DEF UniInv

\* A reader takes the message at rd_.
LEMMA PopTakes ==
  ASSUME UniInv, NEW r \in UniConsumers, pop_take(r), cons'[r].pc = "taken"
  PROVE  UniInv'
  <1>1. /\ ConsAlone(r) /\ cons[r].pc = "take" /\ cons'[r].rd = cons[r].rd
        /\ cons'[r].buff = cons[r].buff /\ urd = cons[r].rd /\ urd' = urd + 1
        /\ UNCHANGED <<policy, uwt, uct, elems, prod>>
    BY ConsMove DEF pop_take, ConsPlaces
  <1>2. urd < uwt /\ cons[r].buff = urd
    BY <1>1 DEF UniInv, ConsLocal
  <1>3. \A q \in UniConsumers : /\ (ConsMoving(q)' <=> ConsMoving(q))
                                /\ ConsMoving(q) => cons'[q] = cons[q]
    BY <1>1 DEF ConsMoving, ConsAlone
  <1>4. \A q \in UniProducers : /\ (Writing(q)' <=> Writing(q))
                                /\ (ProdMoving(q)' <=> ProdMoving(q))
    BY <1>1 DEF Writing, ProdMoving
  <1>5. UniTypeOK' /\ Window'
    BY <1>1, <1>2, UniFacts DEF UniInv, UniTypeOK, Window, ConsAlone
  <1>6. Kept'
    BY <1>1, UniFacts DEF UniInv, Kept
  <1>7. Writers'
    <2>1. \A q \in UniProducers : prod[q].ct \in Nat
      BY UniFacts
    <2> QED BY <1>1, <1>4, <2>1, UniFacts DEF UniInv, Writers
  <1>8. Flags'
    BY <1>1, <1>3, <1>4 DEF UniInv, Flags
  <1>9. Movers'
    BY <1>1, <1>3, <1>4 DEF UniInv, Movers
  <1>10. Covered'
    BY <1>1, <1>3, <1>4 DEF UniInv, Covered
  <1>11. ProdLocal'
    BY <1>1, UniFacts DEF UniInv, ProdLocal
  <1>12. ConsLocal'
    <2> SUFFICES ASSUME NEW q \in UniConsumers
                 PROVE  /\ cons'[q].pc \in {"loaded", "copy", "take"} => cons'[q].rd <= urd'
                        /\ cons'[q].pc \in {"copy", "take"} /\ cons'[q].rd = urd' => urd' < uwt
                        /\ cons'[q].pc = "take" /\ cons'[q].rd = urd' => cons'[q].buff = urd'
                        /\ cons'[q].pc = "taken" => cons'[q].buff = cons'[q].rd /\ cons'[q].rd < urd'
                        /\ cons'[q].pc \in {"help", "unflag"} => cons'[q].wt <= uwt
      BY <1>1 DEF ConsLocal
    <2>1. CASE q = r
      BY <1>1, <1>2, <2>1, UniFacts
    <2>2. CASE q # r
      <3>1. cons'[q] = cons[q] /\ cons[q].rd \in Nat
        BY <1>1, <2>2, UniFacts DEF ConsAlone
      <3> QED BY <1>1, <3>1, UniFacts DEF UniInv, ConsLocal
    <2> QED BY <2>1, <2>2
  <1>13. OnePop'
    <2>1. \A q \in UniConsumers \ {r} : cons[q].pc = "taken" => cons[q].rd # cons[r].rd
      BY <1>1, UniFacts DEF UniInv, ConsLocal
    <2> QED BY <1>1, <2>1 DEF UniInv, OnePop, ConsAlone
  <1>14. Single'
    BY <1>1 DEF UniInv, Single, ConsAlone
  <1> QED BY <1>5, <1>6, <1>7, <1>8, <1>9, <1>10, <1>11, <1>12, <1>13, <1>14 DEF UniInv

\* Every step keeps the invariant.
LEMMA UniStep == UniInv /\ [UniNext]_uniVars => UniInv'
  <1> SUFFICES ASSUME UniInv, [UniNext]_uniVars PROVE UniInv'
    OBVIOUS
  <1>1. ASSUME UNCHANGED <<policy, uwt, urd, uct, elems, prod, cons>> PROVE UniInv'
    BY <1>1 DEF UniInv, UniTypeOK, Window, Kept, Writers, Flags, Movers, Covered, ProdLocal,
                ConsLocal, OnePop, Single, Writing, ProdMoving, ConsMoving
  <1>2. CASE UNCHANGED uniVars
    BY <1>1, <1>2 DEF uniVars
  <1>3. ASSUME NEW p \in UniProducers, Producing(p) PROVE UniInv'
    <2>1. CASE push_claim(p)
      <3>1. prod'[p].pc \in {"push", "fill"}
        BY <2>1, ProdMove DEF push_claim, ProdPlaces
      <3> QED BY <2>1, <3>1, PushOutside, PushStarts
    <2> QED BY <1>3, <2>1, PushOutside DEF Producing
  <1>4. ASSUME NEW p \in UniProducers, UniPushing(p) PROVE UniInv'
    <2>1. CASE push_single(p)
      <3>1. prod[p].pc \in {"push", "flag"}
        BY <2>1 DEF push_single, Prod
      <3> QED BY <2>1, <3>1, PushStarts, PushSingleEnds
    <2>2. CASE push_unflag(p)
      <3>1. prod'[p].pc \in {"move", "idle"}
        BY <2>2, ProdMove DEF push_unflag, ProdPlaces
      <3> QED BY <2>2, <3>1, PushTakesDown, PushLooks
    <2>3. CASE push_fill(p)
      BY <2>3, PushWrites
    <2>4. CASE push_flag(p)
      BY <2>4, PushFlags
    <2>5. CASE push_next(p)
      BY <2>5, PushLooks
    <2>6. CASE push_move(p)
      BY <2>6, PushMoves
    <2> QED BY <1>4, <2>1, <2>2, <2>3, <2>4, <2>5, <2>6 DEF UniPushing
  <1>5. ASSUME NEW r \in UniConsumers, join(r) \/ leave(r) PROVE UniInv'
    BY <1>1, <1>5 DEF join, leave
  <1>6. ASSUME NEW r \in UniConsumers, Popping(r) PROVE UniInv'
    <2>1. CASE pop_unflag(r)
      <3>1. cons'[r].pc \in {"move", "pop"}
        BY <2>1, ConsMove DEF pop_unflag, ConsPlaces
      <3> QED BY <2>1, <3>1, PopTakesDown, PopLooks
    <2>2. CASE pop_take(r)
      <3>1. cons'[r].pc \in {"taken", "pop"}
        BY <2>2, ConsMove DEF pop_take, ConsPlaces
      <3> QED BY <2>2, <3>1, PopTakes, PopLooks
    <2> QED BY <1>6, <2>1, <2>2, PopLooks, PopMoves DEF Popping
  <1> QED BY <1>2, <1>3, <1>4, <1>5, <1>6 DEF UniNext

\* The invariant holds in every state of the rings.
THEOREM UniInvariance == UniSpec => []UniInv
  <1>1. UniInit => UniInv
    BY UniStarts
  <1>2. UniInv /\ [UniNext]_uniVars => UniInv'
    BY UniStep
  <1> QED BY <1>1, <1>2, PTL DEF UniSpec

-----------------------------------------------------------------------------
\* A pop that copies first and takes afterwards returns the message at the
\* position it has taken, whole, and no two pops return the same one.
THEOREM UnicastTakenOnce == UniSpec => []TakenOnce
  <1>1. UniInv => TakenOnce
    BY DEF UniInv, ConsLocal, OnePop, TakenOnce
  <1> QED BY <1>1, UniInvariance, PTL

\* Every message between rd_ and wt_ stays in its slot, claims do not reach round
\* to what has not been read, and a message two writers have each left to the
\* other is still found by its flag.
THEOREM UnicastUnreadStays == UniSpec => []UnreadStays
  <1>1. ASSUME UniInv PROVE UnreadStays
    <2>1. uwt - urd \in 0 .. RingSize - 1
      BY <1>1, UniFacts DEF UniInv, Window
    <2>2. ASSUME NEW i \in urd .. uwt - 1 PROVE elems[IndexOf(i)].data = i
      BY <1>1, UniFacts DEF UniInv, Kept
    <2>3. policy = "mm" => uct - uwt \in 0 .. RingSize - 1 - (uwt - urd)
      BY <1>1, UniFacts DEF UniInv, Window
    <2>4. ASSUME \A p \in UniProducers : prod[p].pc = "idle",
                 \A r \in UniConsumers : cons[r].pc = "idle", uct > uwt
          PROVE  elems[IndexOf(uwt)].flag = uwt
      <3>1. policy = "mm"
        BY <1>1, <2>4, UniFacts DEF UniInv, Single
      <3>2. /\ \A p \in UniProducers : ~Writing(p) /\ ~ProdMoving(p)
            /\ \A r \in UniConsumers : ~ConsMoving(r)
        BY <2>4 DEF Writing, ProdMoving, ConsMoving
      <3> QED BY <1>1, <2>4, <3>1, <3>2, UniFacts DEF UniInv, Covered
    <2> QED BY <2>1, <2>2, <2>3, <2>4 DEF UnreadStays
  <1> QED BY <1>1, UniInvariance, PTL
=============================================================================
