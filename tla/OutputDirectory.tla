---------------------------- MODULE OutputDirectory ----------------------------
(***************************************************************************)
(* What the exporters promise of the directory they publish in: a name is  *)
(* given to a new file in one step and only when it is free, an exporter   *)
(* publishes at most once, and the only file it ever takes back is its     *)
(* own.  Other programs create files under free names and may remove any.  *)
(***************************************************************************)
CONSTANTS Names, Exporters, Outsider, Absent

VARIABLES
  files,   \* whose file is under a name
  stage    \* how far each exporter's publication is

Init ==
  /\ files = [n \in Names |-> Absent]
  /\ stage = [e \in Exporters |-> "working"]

Publish(e, n) ==
  /\ stage[e] = "working" /\ files[n] = Absent
  /\ files' = [files EXCEPT ![n] = e]
  /\ stage' = [stage EXCEPT ![e] = "published"]

\* The exporter could not make its file private: it takes it back, if it is
\* still there.
Withdraw(e, n) ==
  /\ stage[e] = "published" /\ files[n] \in {e, Absent}
  /\ files' = [files EXCEPT ![n] = Absent]
  /\ stage' = [stage EXCEPT ![e] = "quit"]

Confirm(e) ==
  /\ stage[e] = "published"
  /\ stage' = [stage EXCEPT ![e] = "confirmed"]
  /\ UNCHANGED files

\* It ends having published nothing.
Quit(e) ==
  /\ stage[e] = "working"
  /\ stage' = [stage EXCEPT ![e] = "quit"]
  /\ UNCHANGED files

OutsiderCreates(n) ==
  /\ files[n] = Absent
  /\ files' = [files EXCEPT ![n] = Outsider]
  /\ UNCHANGED stage

OutsiderRemoves(n) ==
  /\ files[n] # Absent
  /\ files' = [files EXCEPT ![n] = Absent]
  /\ UNCHANGED stage

Next ==
  \/ \E e \in Exporters : Confirm(e) \/ Quit(e)
  \/ \E e \in Exporters, n \in Names : Publish(e, n) \/ Withdraw(e, n)
  \/ \E n \in Names : OutsiderCreates(n) \/ OutsiderRemoves(n)

vars == <<files, stage>>

Spec == Init /\ [][Next]_vars

=============================================================================
