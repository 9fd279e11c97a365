------------------------------- MODULE MCBase -------------------------------
(***************************************************************************)
(* Memory and helpers, each part on an instance of its own: chunks of      *)
(* large messages, the pools of blocks, the memory resources with the      *)
(* sizes of $new, buffers and guards, expected, and the helpers fmt,       *)
(* codecvt and the clock.  The parts do not interact; part says which one  *)
(* moves.                                                                  *)
(***************************************************************************)
EXTENDS LargeMsg, MemPool, Resources, Buffer, Expected, Support

VARIABLE part

MCBuffers == {[begin |-> 3, size |-> 7], [begin |-> 8, size |-> 4]}

baseVars == <<part, largeVars, poolVars, resVars, objs, bufferVars, expectedVars, supportVars>>

BaseInit ==
  /\ part \in {"large", "pool", "resource", "new", "buffer", "expected", "fmt", "spec", "text", "clock"}
  /\ LargeInit /\ PoolInit /\ (part # "pool" => central = "sized")
  /\ ResInit /\ objs = {} /\ (part # "resource" => res = Reset(Null, 0))
  /\ BufferInit /\ ExpectedInit /\ fmt_init /\ text = <<>>
  /\ spec \in (IF part = "spec" THEN Specs ELSE {NoSpec})
  /\ clock \in (IF part = "clock" THEN Clocks ELSE {[tm |-> 0, nsec |-> 0]})

BaseNext ==
  \/ /\ part = "large" /\ LargeNext
     /\ UNCHANGED <<part, poolVars, resVars, objs, bufferVars, expectedVars, supportVars>>
  \/ /\ part = "pool" /\ PoolNext
     /\ UNCHANGED <<part, largeVars, resVars, objs, bufferVars, expectedVars, supportVars>>
  \/ /\ part = "resource" /\ ResNext
     /\ UNCHANGED <<part, largeVars, poolVars, objs, bufferVars, expectedVars, supportVars>>
  \/ /\ part = "new" /\ ObjNext
     /\ UNCHANGED <<part, largeVars, poolVars, resVars, bufferVars, expectedVars, supportVars>>
  \/ /\ part = "buffer" /\ BufferNext
     /\ UNCHANGED <<part, largeVars, poolVars, resVars, objs, expectedVars, supportVars>>
  \/ /\ part = "expected" /\ ExpectedNext
     /\ UNCHANGED <<part, largeVars, poolVars, resVars, objs, bufferVars, supportVars>>
  \/ /\ part = "fmt" /\ FmtNext
     /\ UNCHANGED <<part, largeVars, poolVars, resVars, objs, bufferVars, expectedVars, spec, text, clock>>
  \/ /\ part = "text" /\ TextNext
     /\ UNCHANGED <<part, largeVars, poolVars, resVars, objs, bufferVars, expectedVars, fmtVars, spec, clock>>

\* The helpers give what they are asked for, at the edges of their buffers,
\* of the encodings and of the units of time, and expected keeps what it has.
HelpersRight ==
  /\ part = "fmt"      => FmtWhole
  /\ part = "spec"     => FormatRight
  /\ part = "text"     => RoundTrip
  /\ part = "clock"    => DeadlineRight
  /\ part = "expected" => HeldOnce

BaseSpec == BaseInit /\ [][BaseNext]_baseVars
=============================================================================
