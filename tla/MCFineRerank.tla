---------------------------- MODULE MCFineRerank ----------------------------
(* Four nodes on four pages, the second and the fourth across two.         *)
EXTENDS FineRerank

MCDist == <<3, 1, 4, 2>>
MCPagesOf == << {1}, {1, 2}, {3}, {3, 4} >>
MCLabelOf == << 30, 10, 40, 20 >>
MCCoarse == { <<1, 2, 3, 4>>, <<4, 3, 1>>, <<2, 4>>, <<1>> }

Setting(p, m, c, f, t) ==
  [path |-> p, merge |-> m, cut |-> c, fails |-> f, partial |-> t]

MCSettings ==
  { Setting(p, m, FALSE, TRUE, FALSE) : p \in {"peek", "barrier"}, m \in BOOLEAN }
    \cup { Setting(p, FALSE, c, f, FALSE) :
             p \in {"pread", "block"}, c \in BOOLEAN, f \in BOOLEAN }
    \cup { Setting("peek", TRUE, TRUE, FALSE, t) : t \in BOOLEAN }

=============================================================================
