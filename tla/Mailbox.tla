------------------------------- MODULE Mailbox -------------------------------
(***************************************************************************)
(* What a Worker promises about the messages posted to it, without threads,*)
(* flags or run loops.  Messages are taken in the order they were posted,  *)
(* and delivered in the order they were taken, each once and none skipped. *)
(* After terminate() at most one message that was already on its way into  *)
(* the queue is still taken, and at most one that was already chosen is    *)
(* still delivered; after close() none is delivered.                       *)
(***************************************************************************)
EXTENDS Naturals, Sequences

CONSTANT Messages   \* a set of numbers: message n is the n-th post attempted

VARIABLES accepted,    \* messages taken, in order
          delivered,   \* messages handed to onmessage, in order
          closed, terminated,
          straggled,   \* messages taken after close() or terminate()
          late         \* messages delivered after terminate()

vars == <<accepted, delivered, closed, terminated, straggled, late>>

Init == /\ accepted = <<>> /\ delivered = <<>>
        /\ closed = FALSE /\ terminated = FALSE
        /\ straggled = 0 /\ late = 0

Accept(m) ==
  /\ \A i \in 1..Len(accepted) : accepted[i] < m
  /\ accepted' = Append(accepted, m)
  /\ IF closed \/ terminated THEN straggled = 0 /\ straggled' = 1
                             ELSE UNCHANGED straggled
  /\ UNCHANGED <<delivered, closed, terminated, late>>

Deliver ==
  /\ ~closed
  /\ Len(delivered) < Len(accepted)
  /\ delivered' = Append(delivered, accepted[Len(delivered) + 1])
  /\ IF terminated THEN late = 0 /\ late' = 1 ELSE UNCHANGED late
  /\ UNCHANGED <<accepted, closed, terminated, straggled>>

Close == /\ closed' = TRUE
         /\ UNCHANGED <<accepted, delivered, terminated, straggled, late>>

Terminate == /\ terminated' = TRUE
             /\ UNCHANGED <<accepted, delivered, closed, straggled, late>>

Next == (\E m \in Messages : Accept(m)) \/ Deliver \/ Close \/ Terminate

Spec == Init /\ [][Next]_vars
=============================================================================
