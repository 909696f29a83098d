--------------------------- MODULE MCQueryThreads ---------------------------
(* Two threads and three queries; a mark of three values.                  *)
EXTENDS QueryThreads, TLC

Setting(p, f, x, w, v) ==
  [pool |-> p, fine |-> f, vec_path |-> x, willneed |-> w, flat |-> v]

MCFlat == { Setting(FALSE, TRUE, TRUE, FALSE, TRUE) }
MCWillneed == { Setting(FALSE, TRUE, TRUE, TRUE, FALSE) }

MCModes ==
  { Setting(TRUE, FALSE, FALSE, FALSE, FALSE), Setting(FALSE, TRUE, FALSE, FALSE, FALSE) }
    \cup MCFlat \cup MCWillneed

=============================================================================
