------------------------------- MODULE MCExport --------------------------------
(* Instances of Export for TLC. *)
EXTENDS Export

Run(strict, keepTemp, preview) == [strict |-> strict, keepTemp |-> keepTemp, preview |-> preview]

\* An export, one that keeps its workspace, a strict one, and a preview.
EachOption ==
  {Run(FALSE, FALSE, FALSE), Run(FALSE, TRUE, FALSE), Run(TRUE, FALSE, FALSE), Run(FALSE, FALSE, TRUE)}

\* Files and native IDs are only compared for equality: a file is named by the
\* first source that leads to it, and an ID that one file alone has is as none.
First(identity, s) == Min({t \in Sources : identity[t] = identity[s]})

EachHistory ==
  {h \in HistoriesOfFiles :
     LET files == {h.identity[s] : s \in Sources}
     IN  /\ \A s \in Sources : h.identity[s] = First(h.identity, s)
         /\ \A f \in Identities : h.native[f] # NoID =>
              f \in files /\ \E g \in files \ {f} : h.native[g] = h.native[f]}
=============================================================================
