------------------------------ MODULE LFUPolicy -------------------------------
(***************************************************************************)
(* LFUPolicy (include/replacement_policy.h): per block how often it was    *)
(* used and a logical time stamp, which breaks ties.                       *)
(***************************************************************************)
EXTENDS Naturals, Functions

EmptyLfu == [freq_map |-> <<>>, counter |-> 0]

LfuTracked(p) == DOMAIN p.freq_map

\* An access counts; it leaves the time stamp alone.
LfuOnAccess(p, b) ==
  IF b \in LfuTracked(p) THEN [p EXCEPT !.freq_map[b].frequency = @ + 1] ELSE p

\* The one place where last_access is written.
LfuOnInsert(p, b) ==
  IF b \in LfuTracked(p) THEN p
  ELSE [freq_map |-> [x \in LfuTracked(p) \cup {b} |->
                        IF x = b THEN [frequency |-> 1,
                                       last_access |-> p.counter + 1]
                        ELSE p.freq_map[x]],
        counter |-> p.counter + 1]

LfuOnRemove(p, b) ==
  [p EXCEPT !.freq_map = Restrict(@, LfuTracked(p) \ {b})]

\* The block used least; of those, the one with the oldest stamp.
LfuVictim(p) ==
  CHOOSE v \in LfuTracked(p) : \A x \in LfuTracked(p) :
    \/ p.freq_map[v].frequency < p.freq_map[x].frequency
    \/ /\ p.freq_map[v].frequency = p.freq_map[x].frequency
       /\ p.freq_map[v].last_access <= p.freq_map[x].last_access

=============================================================================
