------------------------------ MODULE Expected ------------------------------
(***************************************************************************)
(* ipc::expected: a value or an error in the same storage, told apart by   *)
(* has_value_.  Values and errors are items that can be moved; the source  *)
(* of a move keeps its storage and its has_value_ but no item.  Whatever   *)
(* is written over, or is in storage that ends, is left as it is: storage  *)
(* has no destructor that calls the one of its value or error.             *)
(***************************************************************************)
EXTENDS Naturals, Sequences, FiniteSets

CONSTANTS
  Homes,     \* where objects live
  MaxItems   \* bound on the items made

ASSUME ExpectedAssumption == MaxItems \in Nat

NoItem == 0

VARIABLES
  stored,   \* the object in each home: has_value_ and the item it has
  kinds,    \* whether each item was made as a value (the others are errors)
  gone      \* items whose storage has ended or was used again

expectedVars == <<stored, kinds, gone>>

NoObject == [live |-> FALSE, has |-> FALSE, item |-> NoItem]
Object(has, item) == [live |-> TRUE, has |-> has, item |-> item]

ExpectedInit ==
  /\ stored = [p \in Homes |-> NoObject]
  /\ kinds = <<>> /\ gone = {}

NewItem == Len(kinds) + 1
Makes(has) == Len(kinds) < MaxItems /\ kinds' = Append(kinds, has)

\* ~data_union() {}: the item stays where it was, nobody destroys it.
Leaves(o) == gone' = gone \cup ({o.item} \ {NoItem})

\* storage(in_place, ...) and storage(unexpected, ...)
in_place(p) ==
  /\ ~stored[p].live /\ Makes(TRUE)
  /\ stored' = [stored EXCEPT ![p] = Object(TRUE, NewItem)]
  /\ UNCHANGED gone

unexpected(p) ==
  /\ ~stored[p].live /\ Makes(FALSE)
  /\ stored' = [stored EXCEPT ![p] = Object(FALSE, NewItem)]
  /\ UNCHANGED gone

\* value_getter(other) asks other which of the two to construct from it: the
\* new object, and what other is afterwards if it was moved from.
Moved(o) == <<Object(o.has, o.item), [o EXCEPT !.item = NoItem]>>

exp_move(p, q) ==
  /\ ~stored[p].live /\ stored[q].live
  /\ stored' = [stored EXCEPT ![p] = Moved(stored[q])[1], ![q] = Moved(stored[q])[2]]
  /\ UNCHANGED <<kinds, gone>>

\* A copy has an item of its own.
exp_copy(p, q) ==
  /\ ~stored[p].live /\ stored[q].live /\ stored[q].item # NoItem
  /\ Makes(stored[q].has)
  /\ stored' = [stored EXCEPT ![p] = Object(stored[q].has, NewItem)]
  /\ UNCHANGED gone

\* reconstruct: a new object in the place of the old one.
reconstruct(has, item) == Object(has, item)

emplace(p) ==
  /\ stored[p].live /\ Makes(TRUE)
  /\ stored' = [stored EXCEPT ![p] = reconstruct(TRUE, NewItem)]
  /\ Leaves(stored[p])

\* Slip: what was swapped is known by what it was before.
SlipSwapped(a, b) == <<[a EXCEPT !.item = b.item], [b EXCEPT !.item = a.item]>>

\* swap: the items of two values or two errors change places; otherwise the
\* error goes aside, the value into the storage it was in, and then the error
\* into the value's.
Swapped(a, b) ==
  CASE a.has = b.has   -> <<[a EXCEPT !.item = b.item], [b EXCEPT !.item = a.item]>>
    [] ~a.has /\ b.has -> LET err == a.item IN <<reconstruct(TRUE, b.item), reconstruct(FALSE, err)>>
    [] a.has /\ ~b.has -> LET err == b.item IN <<reconstruct(FALSE, err), reconstruct(TRUE, a.item)>>

exp_swap(p, q) ==
  /\ p # q /\ stored[p].live /\ stored[q].live
  /\ LET s == Swapped(stored[p], stored[q]) IN stored' = [stored EXCEPT ![p] = s[1], ![q] = s[2]]
  /\ UNCHANGED <<kinds, gone>>

\* operator= takes its argument by value, here by a move, and swaps with it;
\* then the argument ends.  p = q moves the object out and in again.
exp_assign(p, q) ==
  /\ stored[p].live /\ stored[q].live
  /\ LET arg  == Moved(stored[q])[1]
         from == [stored EXCEPT ![q] = Moved(@)[2]]
         s    == Swapped(from[p], arg)
     IN stored' = [from EXCEPT ![p] = s[1]] /\ Leaves(s[2])
  /\ UNCHANGED kinds

\* and_then: the function has the value and returns it, or an error of its
\* own; without a value the error goes on.
and_then(p, q) ==
  /\ ~stored[p].live /\ stored[q].live
  /\ \/ /\ stored' = [stored EXCEPT ![p] = Moved(stored[q])[1], ![q] = Moved(stored[q])[2]]
        /\ UNCHANGED kinds
     \/ /\ stored[q].has /\ Makes(FALSE)
        /\ stored' = [stored EXCEPT ![p] = Object(FALSE, NewItem)]
  /\ UNCHANGED gone

\* or_else: the same with the error.
or_else(p, q) ==
  /\ ~stored[p].live /\ stored[q].live
  /\ \/ /\ stored' = [stored EXCEPT ![p] = Moved(stored[q])[1], ![q] = Moved(stored[q])[2]]
        /\ UNCHANGED kinds
     \/ /\ ~stored[q].has /\ Makes(TRUE)
        /\ stored' = [stored EXCEPT ![p] = Object(TRUE, NewItem)]
  /\ UNCHANGED gone

exp_end(p) ==
  /\ stored[p].live
  /\ stored' = [stored EXCEPT ![p] = NoObject]
  /\ Leaves(stored[p])
  /\ UNCHANGED kinds

ExpectedNext == \E p \in Homes :
  \/ in_place(p) \/ unexpected(p) \/ emplace(p) \/ exp_end(p)
  \/ \E q \in Homes : \/ exp_move(p, q) \/ exp_copy(p, q) \/ exp_swap(p, q)
                      \/ exp_assign(p, q) \/ and_then(p, q) \/ or_else(p, q)

-----------------------------------------------------------------------------
(* Properties. *)

\* No item is lost or held twice, however expecteds are moved, swapped and
\* assigned: one object has it, as what it was made, or its storage is gone.
HeldOnce == \A i \in 1 .. Len(kinds) :
  LET holders == {p \in Homes : stored[p].item = i} IN
  /\ Cardinality(holders) + (IF i \in gone THEN 1 ELSE 0) = 1
  /\ \A p \in holders : stored[p].has = kinds[i]
=============================================================================
