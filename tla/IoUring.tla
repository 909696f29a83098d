------------------------------- MODULE IoUring -------------------------------
(***************************************************************************)
(* The io_uring wrapper (include/io_uring_wrapper.h): a submission queue,  *)
(* the reads the kernel has taken, a completion queue and a pool of        *)
(* aligned buffers.  The wrapper has no lock of its own: each operator     *)
(* here is one call of it, and the module that owns the ring says who may  *)
(* run it when.                                                            *)
(*                                                                         *)
(* A read is a record [block, buf]: what is read (the user_data of the     *)
(* request) and the buffer the kernel writes it to.  A completion carries  *)
(* the user_data only, which is why the owner must find the buffer again.  *)
(***************************************************************************)
EXTENDS Naturals, FiniteSets

CONSTANTS
  Blocks,        \* what may be read: values of user_data
  Buffers,       \* the buffer pool
  SqEntries,     \* sq_entries_
  SubmitMayFail  \* may io_uring_enter fail or take only part of the queue?

ASSUME IoUringAssumption ==
  /\ IsFiniteSet(Blocks)
  /\ IsFiniteSet(Buffers)
  /\ SqEntries \in Nat \ {0}
  /\ Cardinality(Buffers) <= SqEntries  \* buffer_pool_size_ = sq_entries_
  /\ SubmitMayFail \in BOOLEAN

VARIABLES
  sq,        \* the reads queued and not handed to the kernel: a set
  kernel,    \* the reads the kernel works on: a set
  cq,        \* the reads completed and not reaped: read -> outcome
  inflight,  \* inflight_
  free       \* free_list_

ring == <<sq, kernel, cq, inflight, free>>

Reads == [block : Blocks, buf : Buffers]

\* A full block, or an error or a short read.
Outcomes == {"full", "short"}

Outstanding == sq \cup kernel \cup DOMAIN cq

\* submitRead fills the slot at the tail: in a full queue, which it never
\* checks for, the slot of a read not yet submitted.
Queued(r) ==
  IF Cardinality(sq) < SqEntries
  THEN { sq \cup {r} }
  ELSE { (sq \ {old}) \cup {r} : old \in sq }

\* What one call of submit may hand to the kernel.
Submittable == IF SubmitMayFail THEN SUBSET sq ELSE {sq}

Submit ==
  \E q \in Submittable :
    /\ sq' = sq \ q
    /\ kernel' = kernel \cup q

\* The kernel finishes a read, in any order and with any outcome.
KernelCompletes(r) ==
  /\ r \in kernel
  /\ kernel' = kernel \ {r}
  /\ \E o \in Outcomes :
       cq' = [x \in DOMAIN cq \cup {r} |-> IF x = r THEN o ELSE cq[x]]
  /\ UNCHANGED <<sq, inflight, free>>

RingInit ==
  /\ sq = {} /\ kernel = {}
  /\ cq = [r \in {} |-> "full"]
  /\ inflight = 0
  /\ free = Buffers

=============================================================================
