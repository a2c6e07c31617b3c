-------------------------- MODULE Publication_proofs --------------------------
(* Proofs about Publication, for any number of exporters and of candidates. *)
EXTENDS Publication, FiniteSetTheorems, TLAPS

LEMMA CandidateType ==
  ASSUME NEW name \in Seq(Nat), NEW i \in Nat
  PROVE  Candidate(name, i) \in Seq(Nat)
BY DEF Candidate

\* uniqueDestination's loop variable goes to the next candidate or back to 1.
LEMMA IndexType ==
  ASSUME NEW f \in [Exporters -> 1..(MaxIndex + 1)], NEW e \in Exporters
  PROVE  /\ f[e] <= MaxIndex => [f EXCEPT ![e] = @ + 1] \in [Exporters -> 1..(MaxIndex + 1)]
         /\ [f EXCEPT ![e] = 1] \in [Exporters -> 1..(MaxIndex + 1)]
<1>1. MaxIndex \in Nat
  BY PublicationAssumption
<1>2. f[e] \in 1..(MaxIndex + 1)
  OBVIOUS
<1>3. f[e] <= MaxIndex => f[e] + 1 \in 1..(MaxIndex + 1)
  BY <1>1, <1>2
<1>4. 1 \in 1..(MaxIndex + 1)
  BY <1>1
<1>5. QED
  BY <1>3, <1>4

LEMMA InitType == Init => TypeOK
BY PublicationAssumption DEF Init, TypeOK, Steps, Codes

LEMMA ProceedType ==
  ASSUME TypeOK, NEW e \in Exporters, Proceed(e)
  PROVE  TypeOK'
<1> DEFINE Indexes == [Exporters -> 1..(MaxIndex + 1)]
<1>0. /\ index \in Indexes
      /\ index[e] <= MaxIndex => [index EXCEPT ![e] = @ + 1] \in Indexes
      /\ [index EXCEPT ![e] = 1] \in Indexes
  BY IndexType DEF TypeOK
<1> HIDE DEF Indexes
<1> USE DEF TypeOK, Goto, Finish, Steps, Codes
<1>1. CASE Start(e)
  BY <1>1 DEF Start
<1>2. CASE Gather(e)
  BY <1>2 DEF Gather
<1>3. CASE Select(e)
  <2>1. Candidate(Requested[e], index[e]) \in Seq(Nat)
    BY PublicationAssumption, CandidateType
  <2>2. base' \in [Exporters -> Seq(Nat)]
    BY <1>3, <2>1 DEF Select
  <2>3. index' \in Indexes
    <3>1. \/ index[e] <= MaxIndex /\ index' = [index EXCEPT ![e] = @ + 1]
          \/ index' = [index EXCEPT ![e] = 1]
      BY <1>3 DEF Select
    <3>2. QED
      BY <1>0, <3>1
  <2>4. pc' \in [Exporters -> Steps] /\ code' \in [Exporters -> Codes]
    BY <1>3 DEF Select
  <2>5. QED
    BY <1>3, <2>2, <2>3, <2>4 DEF Select, Indexes
<1>4. CASE CreateTemp(e)
  BY <1>4 DEF CreateTemp
<1>5. CASE CreateRefused(e)
  BY <1>5 DEF CreateRefused
<1>6. CASE Write(e)
  BY <1>6 DEF Write
<1>7. CASE CheckContext(e)
  BY <1>7 DEF CheckContext
<1>8. CASE Probe(e)
  <2>1. index' \in Indexes
    <3>1. \/ index[e] <= MaxIndex /\ index' = [index EXCEPT ![e] = @ + 1]
          \/ index' = index
      BY <1>8 DEF Probe
    <3>2. QED
      BY <1>0, <3>1
  <2>2. pc' \in [Exporters -> Steps]
    <3>1. pc' = pc \/ pc' = [pc EXCEPT ![e] = "link"]
      BY <1>8 DEF Probe
    <3>2. QED
      BY <3>1
  <2>3. QED
    BY <1>8, <2>1, <2>2 DEF Probe, Indexes
<1>9. CASE Link(e)
  BY <1>9 DEF Link
<1>10. CASE LinkTaken(e)
  <2>1. index' \in Indexes
    <3>1. index' = [index EXCEPT ![e] = 1] \/ index' = index
      BY <1>10 DEF LinkTaken
    <3>2. QED
      BY <1>0, <3>1
  <2>2. pc' \in [Exporters -> Steps] /\ code' \in [Exporters -> Codes]
    BY <1>10 DEF LinkTaken
  <2>3. QED
    BY <1>10, <2>1, <2>2 DEF LinkTaken, Indexes
<1>11. CASE Chmod(e)
  BY <1>11 DEF Chmod
<1>12. CASE Exhausted(e)
  BY <1>12 DEF Exhausted
<1>13. CASE RemoveTemp(e)
  BY <1>13 DEF RemoveTemp
<1>14. CASE CloseWorkspace(e)
  BY <1>14 DEF CloseWorkspace
<1>15. QED
  BY <1>1, <1>2, <1>3, <1>4, <1>5, <1>6, <1>7, <1>8, <1>9, <1>10, <1>11, <1>12, <1>13, <1>14
  DEF Proceed

LEMMA BreakdownType ==
  ASSUME TypeOK, NEW e \in Exporters, Breakdown(e)
  PROVE  TypeOK'
<1> USE DEF TypeOK, Goto, Finish, Steps, Codes
<1>1. CASE GatherFails(e)
  BY <1>1 DEF GatherFails
<1>2. CASE WriteCancelled(e)
  BY <1>2 DEF WriteCancelled
<1>3. CASE ChmodFails(e)
  BY <1>3 DEF ChmodFails
<1>4. CASE IOFails(e)
  BY <1>4 DEF IOFails
<1>5. CASE Cancel(e)
  BY <1>5 DEF Cancel
<1>6. CASE Kill(e)
  BY <1>6 DEF Kill
<1>7. QED
  BY <1>1, <1>2, <1>3, <1>4, <1>5, <1>6 DEF Breakdown

LEMMA NextType == TypeOK /\ [Next]_vars => TypeOK'
<1> SUFFICES ASSUME TypeOK, [Next]_vars PROVE TypeOK'
  OBVIOUS
<1>1. ASSUME NEW n \in Names, OutsiderCreates(n) PROVE TypeOK'
  <2>1. files' \in [Names -> Exporters \cup {Outsider, Absent}]
    BY <1>1 DEF TypeOK, OutsiderCreates
  <2>2. outside.created + 1 \in 0..MaxCreations
    BY <1>1, PublicationAssumption DEF TypeOK, OutsiderCreates
  <2>3. outside' \in [created : 0..MaxCreations, removed : 0..MaxRemovals]
    BY <1>1, <2>2 DEF TypeOK, OutsiderCreates
  <2>4. QED
    BY <1>1, <2>1, <2>3 DEF TypeOK, OutsiderCreates
<1>2. ASSUME NEW n \in Names, OutsiderRemoves(n) PROVE TypeOK'
  <2>1. files' \in [Names -> Exporters \cup {Outsider, Absent}]
    BY <1>2 DEF TypeOK, OutsiderRemoves
  <2>2. outside.removed + 1 \in 0..MaxRemovals
    BY <1>2, PublicationAssumption DEF TypeOK, OutsiderRemoves
  <2>3. outside' \in [created : 0..MaxCreations, removed : 0..MaxRemovals]
    BY <1>2, <2>2 DEF TypeOK, OutsiderRemoves
  <2>4. QED
    BY <1>2, <2>1, <2>3 DEF TypeOK, OutsiderRemoves
<1>3. CASE UNCHANGED vars
  BY <1>3 DEF vars, TypeOK
<1>4. QED
  BY <1>1, <1>2, <1>3, ProceedType, BreakdownType DEF Next

\* Every field of the exporters and of the directory stays in its range.
THEOREM TypeCorrect == Spec => []TypeOK
<1>1. Init /\ [][Next]_vars => []TypeOK
  BY InitType, NextType, PTL
<1>2. QED
  BY <1>1, PTL DEF Spec

(***************************************************************************)
(* What an exporter's position says of the rest of its state.              *)
(***************************************************************************)

Ended == {"cleanup", "exited", "killed"}
Publishing == {"check", "probe", "link", "chmod"}
FirstNames == {Candidate(Requested[e], i) : e \in Exporters, i \in 1..MaxIndex}

Phase(e) ==
  /\ pc[e] \notin Ended => code[e] = "none"
  /\ pc[e] \in Publishing \/ e \in linked => written[e]
  /\ pc[e] = "chmod" => e \in linked
  /\ e \in linked => pc[e] \in Ended \cup {"chmod"}
  /\ code[e] = "success" /\ options[e].mode # "preview" => e \in linked
  /\ pc[e] \in {"create", "write", "check"} => index[e] = 1
  /\ pc[e] = "link" \/ e \in linked => index[e] <= MaxIndex
  /\ pc[e] \in {"create", "write"} \cup Publishing \/ e \in linked => base[e] \in FirstNames

Phases == \A e \in Exporters : Phase(e)

\* A step of one exporter leaves the fields of the others alone.
LEMMA StepFrame ==
  ASSUME TypeOK, NEW e \in Exporters, Proceed(e) \/ Breakdown(e),
         NEW other \in Exporters, other # e
  PROVE  /\ pc'[other] = pc[other] /\ code'[other] = code[other]
         /\ base'[other] = base[other] /\ index'[other] = index[other]
         /\ written'[other] = written[other] /\ options' = options
         /\ other \in linked' <=> other \in linked
BY DEF TypeOK, Goto, Finish, Proceed, Breakdown, Start, Gather, Select, CreateTemp,
       CreateRefused, Write, CheckContext, Probe, Link, LinkTaken, Chmod, Exhausted,
       RemoveTemp, CloseWorkspace, GatherFails, WriteCancelled, ChmodFails, IOFails,
       Cancel, Kill

LEMMA ProceedPhase ==
  ASSUME TypeOK, NEW e \in Exporters, Phase(e), Proceed(e)
  PROVE  Phase(e)'
<1> USE DEF TypeOK, Phase, Ended, Publishing, Goto, Finish
<1>0. 1 <= MaxIndex /\ index[e] \in 1..(MaxIndex + 1) /\ MaxIndex \in Nat
  BY PublicationAssumption
<1>1. CASE Start(e)
  BY <1>1 DEF Start
<1>2. CASE Gather(e)
  BY <1>2 DEF Gather
<1>3. CASE Select(e)
  <2>1. index[e] <= MaxIndex => Candidate(Requested[e], index[e]) \in FirstNames
    BY <1>0 DEF FirstNames
  <2>2. QED
    BY <1>0, <1>3, <2>1 DEF Select
<1>4. CASE CreateTemp(e)
  BY <1>4 DEF CreateTemp
<1>5. CASE CreateRefused(e)
  BY <1>5 DEF CreateRefused
<1>6. CASE Write(e)
  BY <1>6 DEF Write
<1>7. CASE CheckContext(e)
  BY <1>0, <1>7 DEF CheckContext
<1>8. CASE Probe(e)
  BY <1>0, <1>8 DEF Probe
<1>9. CASE Link(e)
  BY <1>9 DEF Link
<1>10. CASE LinkTaken(e)
  BY <1>0, <1>10 DEF LinkTaken
<1>11. CASE Chmod(e)
  BY <1>11 DEF Chmod
<1>12. CASE Exhausted(e)
  BY <1>12 DEF Exhausted
<1>13. CASE RemoveTemp(e)
  BY <1>13 DEF RemoveTemp
<1>14. CASE CloseWorkspace(e)
  BY <1>14 DEF CloseWorkspace
<1>15. QED
  BY <1>1, <1>2, <1>3, <1>4, <1>5, <1>6, <1>7, <1>8, <1>9, <1>10, <1>11, <1>12, <1>13, <1>14
  DEF Proceed

LEMMA BreakdownPhase ==
  ASSUME TypeOK, NEW e \in Exporters, Phase(e), Breakdown(e)
  PROVE  Phase(e)'
<1> USE DEF TypeOK, Phase, Ended, Publishing, Goto, Finish
<1>1. CASE GatherFails(e)
  BY <1>1 DEF GatherFails
<1>2. CASE WriteCancelled(e)
  BY <1>2 DEF WriteCancelled
<1>3. CASE ChmodFails(e)
  BY <1>3 DEF ChmodFails
<1>4. CASE IOFails(e)
  BY <1>4 DEF IOFails
<1>5. CASE Cancel(e)
  BY <1>5 DEF Cancel
<1>6. CASE Kill(e)
  BY <1>6 DEF Kill
<1>7. QED
  BY <1>1, <1>2, <1>3, <1>4, <1>5, <1>6 DEF Breakdown

LEMMA NextPhases == TypeOK /\ Phases /\ [Next]_vars => Phases'
<1> SUFFICES ASSUME TypeOK, Phases, [Next]_vars PROVE Phases'
  OBVIOUS
<1>1. ASSUME NEW e \in Exporters, Proceed(e) \/ Breakdown(e) PROVE Phases'
  <2>1. Phase(e)'
    BY <1>1, ProceedPhase, BreakdownPhase DEF Phases
  <2>2. ASSUME NEW other \in Exporters, other # e PROVE Phase(other)'
    BY <1>1, <2>2, StepFrame DEF Phases, Phase
  <2>3. QED
    BY <2>1, <2>2 DEF Phases
<1>2. ASSUME NEW n \in Names, OutsiderCreates(n) \/ OutsiderRemoves(n) PROVE Phases'
  BY <1>2 DEF Phases, Phase, OutsiderCreates, OutsiderRemoves
<1>3. CASE UNCHANGED vars
  BY <1>3 DEF vars, Phases, Phase
<1>4. QED
  BY <1>1, <1>2, <1>3 DEF Next

LEMMA InitPhases == Init => Phases
BY DEF Init, Phases, Phase, Ended, Publishing

(***************************************************************************)
(* Whose file is under which name.  That a successful exporter's file is   *)
(* there is not inductive: the file has to be there from the moment it is  *)
(* linked, when the exporter has not yet reported anything.                *)
(***************************************************************************)

HeldByLinked == \A n \in Names, e \in Exporters : files[n] = e => e \in linked

Owned ==
  outside.removed = 0 =>
    \A e \in linked : code[e] \in {"none", "success"} => files[Target(e)] = e

LEMMA TargetIsName ==
  ASSUME TypeOK, NEW e \in Exporters, Phase(e), pc[e] = "link" \/ e \in linked
  PROVE  Target(e) \in Names
<1>1. PICK f \in Exporters, i \in 1..MaxIndex : base[e] = Candidate(Requested[f], i)
  BY DEF Phase, FirstNames, Publishing
<1>2. index[e] \in 1..MaxIndex
  BY PublicationAssumption DEF Phase, TypeOK
<1>3. QED
  BY <1>1, <1>2 DEF Target, Names

\* What a step of an exporter may do to the directory.
LEMMA FilesStep ==
  ASSUME TypeOK, NEW e \in Exporters, Phase(e), Proceed(e) \/ Breakdown(e)
  PROVE  \/ Link(e) \/ ChmodFails(e)
         \/ /\ files' = files /\ linked' = linked /\ outside' = outside
            /\ e \in linked => /\ Target(e)' = Target(e)
                               /\ code'[e] = code[e] \/ code[e] = "none"
BY DEF TypeOK, Phase, Ended, Target, Goto, Finish, Proceed, Breakdown, Start, Gather, Select,
       CreateTemp, CreateRefused, Write, CheckContext, Probe, Link, LinkTaken, Chmod, Exhausted,
       RemoveTemp, CloseWorkspace, GatherFails, WriteCancelled, ChmodFails, IOFails,
       Cancel, Kill

LEMMA NextHeldByLinked ==
  TypeOK /\ Phases /\ HeldByLinked /\ [Next]_vars => HeldByLinked'
<1> SUFFICES ASSUME TypeOK, Phases, HeldByLinked, [Next]_vars PROVE HeldByLinked'
  OBVIOUS
<1>1. ASSUME NEW e \in Exporters, Link(e) PROVE HeldByLinked'
  BY <1>1 DEF Link, HeldByLinked, TypeOK
<1>2. ASSUME NEW e \in Exporters, ChmodFails(e) PROVE HeldByLinked'
  BY <1>2, PublicationAssumption DEF ChmodFails, HeldByLinked, TypeOK
<1>3. ASSUME NEW n \in Names, OutsiderCreates(n) \/ OutsiderRemoves(n) PROVE HeldByLinked'
  BY <1>3, PublicationAssumption, ZenonT(60) DEF OutsiderCreates, OutsiderRemoves, HeldByLinked, TypeOK
<1>4. ASSUME files' = files, linked' = linked PROVE HeldByLinked'
  BY <1>4 DEF HeldByLinked
<1>5. ASSUME NEW e \in Exporters, Proceed(e) \/ Breakdown(e) PROVE HeldByLinked'
  BY <1>1, <1>2, <1>4, <1>5, FilesStep DEF Phases
<1>6. QED
  BY <1>3, <1>4, <1>5 DEF Next, vars

LEMMA NextOwned ==
  TypeOK /\ Phases /\ Owned /\ [Next]_vars => Owned'
<1> SUFFICES ASSUME TypeOK, Phases, Owned, [Next]_vars, outside'.removed = 0
             PROVE  \A e \in linked' : code'[e] \in {"none", "success"} => files'[Target(e)'] = e
  BY DEF Owned
<1> DEFINE Kept(e) == code'[e] \in {"none", "success"} => files'[Target(e)'] = e
<1>1. ASSUME NEW e \in Exporters, Proceed(e) \/ Breakdown(e)
      PROVE  \A x \in linked' : Kept(x)
  <2>1. outside' = outside
    BY <1>1 DEF Proceed, Breakdown, Start, Gather, Select, CreateTemp, CreateRefused, Write,
       CheckContext, Probe, Link, LinkTaken, Chmod, Exhausted, RemoveTemp, CloseWorkspace,
       GatherFails, WriteCancelled, ChmodFails, IOFails, Cancel, Kill
  <2>2. \A x \in linked : code[x] \in {"none", "success"} => files[Target(x)] = x
    BY <2>1 DEF Owned
  <2>3. ASSUME NEW x \in linked, x # e
        PROVE  Target(x)' = Target(x) /\ code'[x] = code[x] /\ Target(x) \in Names
    BY <1>1, <2>3, StepFrame, TargetIsName DEF Target, Phases, TypeOK
  <2>4. CASE Link(e)
    <3>1. Target(e)' = Target(e) /\ Target(e) \in Names /\ files[Target(e)] = Absent
      BY <2>4, TargetIsName DEF Link, Target, Taken, Phases
    <3>2. Kept(e)
      BY <2>4, <3>1 DEF Link, TypeOK
    <3>3. ASSUME NEW x \in linked, x # e PROVE Kept(x)
      BY <2>2, <2>3, <2>4, <3>1, <3>3, PublicationAssumption DEF Link, TypeOK
    <3>4. QED
      BY <2>4, <3>2, <3>3 DEF Link
  <2>5. CASE ChmodFails(e)
    <3>1. e \in linked /\ code[e] = "none" /\ code'[e] = "output"
      BY <2>5 DEF ChmodFails, Finish, Phases, Phase, Ended, TypeOK
    <3>2. files[Target(e)] = e
      BY <2>2, <3>1
    <3>3. ASSUME NEW x \in linked, x # e PROVE Kept(x)
      BY <2>2, <2>3, <2>5, <3>2, <3>3 DEF ChmodFails, TypeOK
    <3>4. QED
      BY <2>5, <3>1, <3>3 DEF ChmodFails
  <2>6. CASE /\ files' = files /\ linked' = linked
             /\ e \in linked => /\ Target(e)' = Target(e)
                                /\ code'[e] = code[e] \/ code[e] = "none"
    BY <2>2, <2>3, <2>6
  <2>7. QED
    BY <1>1, <2>4, <2>5, <2>6, FilesStep DEF Phases
<1>2. ASSUME NEW n \in Names, OutsiderCreates(n) PROVE \A x \in linked' : Kept(x)
  <2>1. \A x \in linked : code[x] \in {"none", "success"} => files[Target(x)] = x
    BY <1>2 DEF OutsiderCreates, Owned, TypeOK
  <2>2. files[n] = Absent
    BY <1>2 DEF OutsiderCreates, Taken
  <2>3. linked' = linked /\ code' = code /\ \A x \in linked : Target(x)' = Target(x)
    BY <1>2 DEF OutsiderCreates, Target
  <2>4. \A x \in linked : files[Target(x)] = x => files'[Target(x)] = x
    BY <1>2, <2>2, PublicationAssumption, TargetIsName DEF OutsiderCreates, Phases, TypeOK
  <2>5. QED
    BY <2>1, <2>3, <2>4
<1>3. ASSUME NEW n \in Names, OutsiderRemoves(n) PROVE FALSE
  BY <1>3 DEF OutsiderRemoves, TypeOK
<1>4. CASE UNCHANGED vars
  BY <1>4 DEF vars, Owned, Target
<1>5. QED
  BY <1>1, <1>2, <1>3, <1>4 DEF Next

LEMMA InitFiles == Init => HeldByLinked /\ Owned
BY PublicationAssumption DEF Init, HeldByLinked, Owned

LEMMA Invariants == Init /\ [][Next]_vars => [](TypeOK /\ Phases /\ HeldByLinked /\ Owned)
BY InitType, InitPhases, InitFiles, NextType, NextPhases, NextHeldByLinked, NextOwned, PTL

\* A name never refers to an exporter's file before its bytes are complete,
\* wherever any of the processes is stopped.
THEOREM OutputIsWhole == Spec => []OutputWhole
<1>1. Phases /\ HeldByLinked => OutputWhole
  BY DEF Phases, Phase, HeldByLinked, OutputWhole
<1>2. QED
  BY <1>1, Invariants, PTL DEF Spec

\* A successful exporter's file is under the name it reports, for any number of
\* exporters that race for names, of whatever format.
THEOREM SuccessStaysThere == Spec => []SuccessIsThere
<1>1. Phases /\ Owned => SuccessIsThere
  BY DEF Phases, Phase, Owned, SuccessIsThere
<1>2. QED
  BY <1>1, Invariants, PTL DEF Spec

(***************************************************************************)
(* The exporters implement OutputDirectory while no other program removes  *)
(* files.  The assumption is needed: RemovesOnlyItsOwn fails without it.   *)
(***************************************************************************)

LEMMA InitRefines == Init => AbstractDirectory!Init
BY DEF Init, AbstractDirectory!Init, Stage

\* What a step of e does to the abstract stages.
LEMMA StageOfStep ==
  ASSUME TypeOK, NEW e \in Exporters, Proceed(e) \/ Breakdown(e)
  PROVE  Stage' = [Stage EXCEPT ![e] = Stage'[e]]
<1>1. \A other \in Exporters : other # e => Stage'[other] = Stage[other]
  BY StepFrame DEF Stage
<1>2. QED
  <2>1. /\ Stage = [x \in Exporters |-> Stage[x]]
        /\ Stage' = [x \in Exporters |-> Stage'[x]]
    BY DEF Stage
  <2>2. QED
    BY <1>1, <2>1

LEMMA ExporterRefines ==
  ASSUME TypeOK, Phases, Owned, outside.removed = 0,
         NEW e \in Exporters, Proceed(e) \/ Breakdown(e)
  PROVE  [AbstractDirectory!Next]_(AbstractDirectory!vars)
<1>0. Phase(e) /\ Stage' = [Stage EXCEPT ![e] = Stage'[e]]
  BY StageOfStep DEF Phases
<1>1. CASE Link(e)
  <2>1. Target(e) \in Names /\ files[Target(e)] = Absent
    BY <1>0, <1>1, TargetIsName DEF Link, Taken
  <2>2. Stage[e] = "working" /\ Stage'[e] = "published"
    BY <1>0, <1>1 DEF Link, Phase, Ended, Stage
  <2>3. AbstractDirectory!Publish(e, Target(e))
    BY <1>0, <1>1, <2>1, <2>2 DEF Link, AbstractDirectory!Publish
  <2>4. QED
    BY <2>1, <2>3 DEF AbstractDirectory!Next
<1>2. CASE ChmodFails(e)
  <2>1. e \in linked /\ code[e] = "none" /\ code'[e] = "output" /\ linked' = linked
    BY <1>0, <1>2 DEF ChmodFails, Finish, Phase, Ended, TypeOK
  <2>2. Target(e) \in Names /\ files[Target(e)] = e
    BY <1>0, <2>1, TargetIsName DEF Owned
  <2>3. Stage[e] = "published" /\ Stage'[e] = "quit"
    BY <2>1 DEF Stage
  <2>4. AbstractDirectory!Withdraw(e, Target(e))
    BY <1>0, <1>2, <2>2, <2>3 DEF ChmodFails, AbstractDirectory!Withdraw
  <2>5. QED
    BY <2>2, <2>4 DEF AbstractDirectory!Next
<1>3. CASE files' = files /\ linked' = linked
  <2>1. CASE code'[e] = code[e]
    <3>1. Stage'[e] = Stage[e]
      BY <1>3, <2>1 DEF Stage
    <3>2. QED
      BY <1>0, <1>3, <3>1 DEF AbstractDirectory!vars, Stage
  <2>2. CASE code'[e] # code[e] /\ e \in linked
    <3>1. (code[e] = "none" /\ code'[e] = "success") \/ ChmodFails(e)
      BY <1>0, <1>3, <2>2 DEF TypeOK, Phase, Ended, Goto, Finish, Proceed, Breakdown, Start,
         Gather, Select, CreateTemp, CreateRefused, Write, CheckContext, Probe, Link, LinkTaken,
         Chmod, Exhausted, RemoveTemp, CloseWorkspace, GatherFails, WriteCancelled, IOFails,
         Cancel, Kill
    <3>2. CASE code[e] = "none" /\ code'[e] = "success"
      <4>1. Stage[e] = "published" /\ Stage'[e] = "confirmed"
        BY <1>3, <2>2, <3>2 DEF Stage
      <4>2. AbstractDirectory!Confirm(e)
        BY <1>0, <1>3, <4>1 DEF AbstractDirectory!Confirm
      <4>3. QED
        BY <4>2 DEF AbstractDirectory!Next
    <3>3. QED
      BY <1>2, <3>1, <3>2
  <2>3. CASE code'[e] # code[e] /\ e \notin linked
    <3>1. code[e] = "none" /\ code'[e] # "none"
      BY <1>0, <1>3, <2>3 DEF TypeOK, Phase, Ended, Goto, Finish, Proceed, Breakdown, Start,
         Gather, Select, CreateTemp, CreateRefused, Write, CheckContext, Probe, Link, LinkTaken,
         Chmod, Exhausted, RemoveTemp, CloseWorkspace, GatherFails, WriteCancelled, ChmodFails,
         IOFails, Cancel, Kill
    <3>2. Stage[e] = "working" /\ Stage'[e] = "quit"
      BY <1>3, <2>3, <3>1 DEF Stage
    <3>3. AbstractDirectory!Quit(e)
      BY <1>0, <1>3, <3>2 DEF AbstractDirectory!Quit
    <3>4. QED
      BY <3>3 DEF AbstractDirectory!Next
  <2>4. QED
    BY <2>1, <2>2, <2>3
<1>4. QED
  BY <1>0, <1>1, <1>2, <1>3, FilesStep

LEMMA NextRefines ==
  TypeOK /\ Phases /\ Owned /\ outside.removed = 0 /\ [Next]_vars
    => [AbstractDirectory!Next]_(AbstractDirectory!vars)
<1> SUFFICES ASSUME TypeOK, Phases, Owned, outside.removed = 0, [Next]_vars
             PROVE  [AbstractDirectory!Next]_(AbstractDirectory!vars)
  OBVIOUS
<1>1. ASSUME NEW n \in Names, OutsiderCreates(n) \/ OutsiderRemoves(n)
      PROVE  [AbstractDirectory!Next]_(AbstractDirectory!vars)
  <2>1. Stage' = Stage
    BY <1>1 DEF OutsiderCreates, OutsiderRemoves, Stage
  <2>2. AbstractDirectory!OutsiderCreates(n) \/ AbstractDirectory!OutsiderRemoves(n)
    BY <1>1, <2>1 DEF OutsiderCreates, OutsiderRemoves, Taken,
       AbstractDirectory!OutsiderCreates, AbstractDirectory!OutsiderRemoves
  <2>3. QED
    BY <2>2 DEF AbstractDirectory!Next
<1>2. CASE UNCHANGED vars
  BY <1>2 DEF vars, Stage, AbstractDirectory!vars
<1>3. QED
  BY <1>1, <1>2, ExporterRefines DEF Next

\* Any number of exporters, of any formats, with any of them failing, cancelled
\* or killed anywhere, use the directory as OutputDirectory says.
THEOREM PublicationImplementsDirectory ==
  ASSUME MaxRemovals = 0
  PROVE  Spec => ImplementsDirectory
<1>1. TypeOK => outside.removed = 0
  BY DEF TypeOK
<1>2. QED
  BY <1>1, InitRefines, NextRefines, Invariants, PTL
  DEF Spec, ImplementsDirectory, AbstractDirectory!Spec

(***************************************************************************)
(* What an exporter leaves.  Its file is under the one name it linked, and *)
(* stays only while it works, if it was killed, or with its success; what  *)
(* it has made for itself is gone when it exits.                           *)
(***************************************************************************)

Leaves(e) ==
  /\ \A n \in Names : files[n] = e =>
       n = Target(e) /\ (pc[e] \in {"chmod", "killed"} \/ code[e] = "success")
  /\ options[e].mode = "preview" =>
       pc[e] \notin {"create", "write"} \cup Publishing /\ e \notin linked
  /\ pc[e] = "exited" => ~temp[e] /\ (workspace[e] => options[e].keepTemp /\ code[e] # "success")
  /\ pc[e] \in {"start", "gather"} => index[e] = 1

LeavesFiles(e) ==
  \A n \in Names : files[n] = e =>
    n = Target(e) /\ (pc[e] \in {"chmod", "killed"} \/ code[e] = "success")

LEMMA LinkLeaves ==
  ASSUME TypeOK, NEW e \in Exporters, Phase(e), LeavesFiles(e), Link(e)
  PROVE  LeavesFiles(e)'
<1>1. Target(e)' = Target(e)
  BY DEF Link, Target
<1>2. pc'[e] = "chmod" /\ pc[e] = "link" /\ code[e] = "none"
  BY DEF Link, Goto, TypeOK, Phase, Ended
<1>3. \A n \in Names : n # Target(e) => files'[n] = files[n]
  BY DEF Link, TypeOK
<1>4. \A n \in Names : files[n] # e
  BY <1>2 DEF LeavesFiles
<1>5. QED
  BY <1>1, <1>2, <1>3, <1>4 DEF LeavesFiles

LEMMA ChmodFailsLeaves ==
  ASSUME TypeOK, NEW e \in Exporters, LeavesFiles(e), ChmodFails(e)
  PROVE  LeavesFiles(e)'
<1>1. \A n \in Names : n # Target(e) => files'[n] = files[n]
  BY DEF ChmodFails, TypeOK
<1>2. \A n \in Names : n = Target(e) => files'[n] = Absent
  BY DEF ChmodFails, TypeOK
<1>3. \A n \in Names : files'[n] # e
  BY <1>1, <1>2, PublicationAssumption DEF LeavesFiles
<1>4. QED
  BY <1>3 DEF LeavesFiles

\* An exporter that has a file does nothing else with names.
LEMMA HolderSteps ==
  ASSUME TypeOK, NEW e \in Exporters, Phase(e), e \in linked, Proceed(e) \/ Breakdown(e),
         pc[e] \in {"chmod", "killed"} \/ code[e] = "success"
  PROVE  ChmodFails(e) \/ pc'[e] \in {"chmod", "killed"} \/ code'[e] = "success"
BY DEF TypeOK, Phase, Ended, Goto, Finish, Running, Proceed, Breakdown, Start, Gather, Select,
       CreateTemp, CreateRefused, Write, CheckContext, Probe, Link, LinkTaken, Chmod, Exhausted,
       RemoveTemp, CloseWorkspace, GatherFails, WriteCancelled, ChmodFails, IOFails,
       Cancel, Kill

LEMMA OwnLeaves ==
  ASSUME TypeOK, HeldByLinked, NEW e \in Exporters, Phase(e), Leaves(e), Proceed(e) \/ Breakdown(e)
  PROVE  Leaves(e)'
<1>1. LeavesFiles(e)'
  <2>0. LeavesFiles(e)
    BY DEF Leaves, LeavesFiles
  <2>1. CASE Link(e)
    BY <2>0, <2>1, LinkLeaves
  <2>2. CASE ChmodFails(e)
    BY <2>0, <2>2, ChmodFailsLeaves
  <2>3. CASE /\ ~ChmodFails(e) /\ files' = files
             /\ e \in linked => Target(e)' = Target(e)
    BY <2>0, <2>3, HolderSteps DEF HeldByLinked, LeavesFiles
  <2>4. QED
    BY <2>1, <2>2, <2>3, FilesStep
<1> USE DEF TypeOK, Leaves, Publishing, Phase, Ended, Goto, Finish
<1>2. options' = options
  BY DEF Proceed, Breakdown, Start, Gather, Select, CreateTemp, CreateRefused, Write,
     CheckContext, Probe, Link, LinkTaken, Chmod, Exhausted, RemoveTemp, CloseWorkspace,
     GatherFails, WriteCancelled, ChmodFails, IOFails, Cancel, Kill
<1>3. options[e].mode = "preview" =>
        pc'[e] \notin {"create", "write"} \cup Publishing /\ e \notin linked'
  BY DEF Proceed, Breakdown, Start, Gather, Select, CreateTemp, CreateRefused, Write,
     CheckContext, Probe, Link, LinkTaken, Chmod, Exhausted, RemoveTemp, CloseWorkspace,
     GatherFails, WriteCancelled, ChmodFails, IOFails, Cancel, Kill
<1>4. pc'[e] = "exited" =>
        ~temp'[e] /\ (workspace'[e] => options[e].keepTemp /\ code'[e] # "success")
  BY DEF Running, Proceed, Breakdown, Start, Gather, Select, CreateTemp, CreateRefused, Write,
     CheckContext, Probe, Link, LinkTaken, Chmod, Exhausted, RemoveTemp, CloseWorkspace,
     GatherFails, WriteCancelled, ChmodFails, IOFails, Cancel, Kill
<1>5. pc'[e] \in {"start", "gather"} => index'[e] = 1
  BY DEF Proceed, Breakdown, Start, Gather, Select, CreateTemp, CreateRefused, Write,
     CheckContext, Probe, Link, LinkTaken, Chmod, Exhausted, RemoveTemp, CloseWorkspace,
     GatherFails, WriteCancelled, ChmodFails, IOFails, Cancel, Kill
<1>6. QED
  BY <1>1, <1>2, <1>3, <1>4, <1>5 DEF LeavesFiles

LEMMA OtherFields ==
  ASSUME TypeOK, NEW e \in Exporters, Proceed(e) \/ Breakdown(e),
         NEW other \in Exporters, other # e
  PROVE  /\ temp'[other] = temp[other] /\ workspace'[other] = workspace[other]
         /\ cancelled'[other] = cancelled[other] /\ faulted'[other] = faulted[other]
         /\ Target(other)' = Target(other)
         /\ \A n \in Names : files'[n] = other => files[n] = other
BY PublicationAssumption
   DEF TypeOK, Target, Goto, Finish, Proceed, Breakdown, Start, Gather, Select, CreateTemp,
       CreateRefused, Write, CheckContext, Probe, Link, LinkTaken, Chmod, Exhausted,
       RemoveTemp, CloseWorkspace, GatherFails, WriteCancelled, ChmodFails, IOFails,
       Cancel, Kill

AllLeave == \A e \in Exporters : Leaves(e)

LEMMA NextLeaves ==
  TypeOK /\ Phases /\ HeldByLinked /\ AllLeave /\ [Next]_vars => AllLeave'
<1> SUFFICES ASSUME TypeOK, Phases, HeldByLinked, AllLeave, [Next]_vars PROVE AllLeave'
  OBVIOUS
<1>1. ASSUME NEW e \in Exporters, Proceed(e) \/ Breakdown(e) PROVE AllLeave'
  <2>1. Leaves(e)'
    BY <1>1, OwnLeaves DEF AllLeave, Phases
  <2>2. ASSUME NEW other \in Exporters, other # e PROVE Leaves(other)'
    <3>1. /\ pc'[other] = pc[other] /\ code'[other] = code[other]
          /\ index'[other] = index[other] /\ options' = options
          /\ other \in linked' <=> other \in linked
      BY <1>1, <2>2, StepFrame
    <3>2. /\ temp'[other] = temp[other] /\ workspace'[other] = workspace[other]
          /\ Target(other)' = Target(other)
          /\ \A n \in Names : files'[n] = other => files[n] = other
      BY <1>1, <2>2, OtherFields
    <3>3. QED
      BY <3>1, <3>2 DEF AllLeave, Leaves
  <2>3. QED
    BY <2>1, <2>2 DEF AllLeave
<1>2. ASSUME NEW n \in Names, OutsiderCreates(n) \/ OutsiderRemoves(n) PROVE AllLeave'
  <2>1. \A e \in Exporters, m \in Names : files'[m] = e => files[m] = e
    BY <1>2, PublicationAssumption DEF OutsiderCreates, OutsiderRemoves, TypeOK
  <2>2. \A e \in Exporters : Target(e)' = Target(e)
    BY <1>2 DEF OutsiderCreates, OutsiderRemoves, Target
  <2>3. UNCHANGED <<options, pc, code, index, linked, temp, workspace>>
    BY <1>2 DEF OutsiderCreates, OutsiderRemoves
  <2>4. QED
    BY <2>1, <2>2, <2>3 DEF AllLeave, Leaves
<1>3. CASE UNCHANGED vars
  BY <1>3 DEF vars, AllLeave, Leaves, Target
<1>4. QED
  BY <1>1, <1>2, <1>3 DEF Next

LEMMA InitLeaves == Init => AllLeave
BY PublicationAssumption DEF Init, AllLeave, Leaves, Publishing

\* Wherever it fails or is cancelled, an exporter that exits without success
\* has no file in the directory, and none leaves a temporary behind.
THEOREM NothingStaysBehind == Spec => []NothingLeftBehind
<1>1. HeldByLinked /\ AllLeave => NothingLeftBehind
  BY DEF HeldByLinked, AllLeave, Leaves, NothingLeftBehind
<1>2. Init /\ [][Next]_vars => []AllLeave
  BY InitLeaves, NextLeaves, Invariants, PTL
<1>3. QED
  BY <1>1, <1>2, Invariants, PTL DEF Spec

(***************************************************************************)
(* Finding a name.  The loop of uniqueDestination remembers only how far   *)
(* it came, so what its index stands for is existential: there is a set of *)
(* names that other programs created, no larger than the number of files   *)
(* they created, such that every candidate the loop has passed is in it or *)
(* was linked by another exporter.  Files that are removed, and names that *)
(* are taken again, do not matter.                                         *)
(***************************************************************************)

Destination(e) == IF pc[e] = "select" THEN Requested[e] ELSE base[e]
Tried(e) == {Candidate(Destination(e), j) : j \in 1..(index[e] - 1)}
LinkedByOthers(e) == {Target(x) : x \in linked \ {e}}

MetBy(created) ==
  /\ IsFiniteSet(created) /\ Cardinality(created) <= outside.created
  /\ \A n \in Names : files[n] = Outsider => n \in created
  /\ \A e \in Exporters :
       pc[e] \in {"select", "probe"} => Tried(e) \subseteq created \cup LinkedByOthers(e)

Met == \E created \in SUBSET Names : MetBy(created)

OutOfNames(e) ==
  code[e] = "output" /\ ~faulted[e] /\ ~cancelled[e] /\ options[e].mode # "zip" =>
    MaxIndex <= outside.created + Cardinality(linked \ {e})

NamesInv == IsFiniteSet(linked) /\ Met /\ \A e \in Exporters : OutOfNames(e)

\* Candidates of one name are different names.
LEMMA CandidatesDiffer ==
  ASSUME NEW name \in Seq(Nat), NEW i \in Nat \ {0}, NEW j \in Nat \ {0}, i # j
  PROVE  Candidate(name, i) # Candidate(name, j)
<1>1. \A k \in Nat : /\ Len(Append(name, k)) = Len(name) + 1
                     /\ Append(name, k)[Len(name) + 1] = k
                     /\ Len(name) \in Nat
  OBVIOUS
<1>2. CASE i = 1
  <2>1. Candidate(name, i) = name /\ Candidate(name, j) = Append(name, j)
    BY <1>2 DEF Candidate
  <2>2. Len(name) # Len(Append(name, j))
    BY <1>1
  <2>3. QED
    BY <2>1, <2>2
<1>3. CASE j = 1
  <2>1. Candidate(name, j) = name /\ Candidate(name, i) = Append(name, i)
    BY <1>3 DEF Candidate
  <2>2. Len(name) # Len(Append(name, i))
    BY <1>1
  <2>3. QED
    BY <2>1, <2>2
<1>4. CASE i # 1 /\ j # 1
  <2>1. Candidate(name, i) = Append(name, i) /\ Candidate(name, j) = Append(name, j)
    BY <1>4 DEF Candidate
  <2>2. Append(name, i)[Len(name) + 1] # Append(name, j)[Len(name) + 1]
    BY <1>1
  <2>3. QED
    BY <2>1, <2>2
<1>5. QED
  BY <1>2, <1>3, <1>4

\* So the candidates are as many as their numbers.
LEMMA CandidatesFill ==
  ASSUME NEW name \in Seq(Nat), NEW n \in Nat, NEW A, IsFiniteSet(A), NEW B, IsFiniteSet(B),
         {Candidate(name, j) : j \in 1..n} \subseteq A \cup B
  PROVE  n <= Cardinality(A) + Cardinality(B)
<1> DEFINE f == [j \in 1..n |-> Candidate(name, j)]
<1>1. f \in [1..n -> A \cup B]
  OBVIOUS
<1>2. \A i, j \in 1..n : f[i] = f[j] => i = j
  <2> SUFFICES ASSUME NEW i \in 1..n, NEW j \in 1..n, i # j PROVE f[i] # f[j]
    OBVIOUS
  <2>1. i \in Nat \ {0} /\ j \in Nat \ {0}
    OBVIOUS
  <2>2. QED
    BY <2>1, CandidatesDiffer
<1>3. f \in Injection(1..n, A \cup B)
  BY <1>1, <1>2 DEF Injection, IsInjective
<1> HIDE DEF f
<1>4. /\ IsFiniteSet(A \cup B)
      /\ Cardinality(A \cup B) = Cardinality(A) + Cardinality(B) - Cardinality(A \cap B)
  BY FS_Union
<1>5. Cardinality(1..n) <= Cardinality(A \cup B)
  BY <1>3, <1>4, FS_Injection
<1>6. Cardinality(1..n) = n
  BY FS_Interval
<1>7. Cardinality(A) \in Nat /\ Cardinality(B) \in Nat
  BY FS_CardinalityType
<1>8. Cardinality(A \cap B) \in Nat
  <2>1. IsFiniteSet(A \cap B)
    BY FS_Intersection
  <2>2. QED
    BY <2>1, FS_CardinalityType
<1>9. QED
  BY <1>4, <1>5, <1>6, <1>7, <1>8

LEMMA ImageOfFinite ==
  ASSUME NEW e, IsFiniteSet(linked)
  PROVE  /\ IsFiniteSet(linked \ {e}) /\ Cardinality(linked \ {e}) \in Nat
         /\ IsFiniteSet(LinkedByOthers(e))
         /\ Cardinality(LinkedByOthers(e)) <= Cardinality(linked \ {e})
<1> DEFINE S == linked \ {e}  f == [x \in S |-> Target(x)]
<1>1. IsFiniteSet(S)
  BY FS_RemoveElement
<1>2. f \in Surjection(S, LinkedByOthers(e))
  BY DEF Surjection, LinkedByOthers
<1>3. IsFiniteSet(LinkedByOthers(e)) /\ Cardinality(LinkedByOthers(e)) <= Cardinality(S)
  BY <1>1, <1>2, FS_Surjection
<1>4. Cardinality(S) \in Nat
  BY <1>1, FS_CardinalityType
<1>5. QED
  BY <1>1, <1>3, <1>4

\* A name found taken was created by another program or linked by another
\* exporter.
LEMMA TakenIsMet ==
  ASSUME TypeOK, HeldByLinked, AllLeave, NEW created, MetBy(created),
         NEW e \in Exporters, e \notin linked, NEW n \in Names, Taken(n)
  PROVE  n \in created \cup LinkedByOthers(e)
<1>1. files[n] = Outsider \/ files[n] \in Exporters
  BY DEF Taken, TypeOK
<1>2. CASE files[n] = Outsider
  BY <1>2 DEF MetBy
<1>3. ASSUME NEW x \in Exporters, files[n] = x PROVE n \in LinkedByOthers(e)
  <2>1. x \in linked \ {e}
    BY <1>3 DEF HeldByLinked
  <2>2. n = Target(x)
    BY <1>3 DEF AllLeave, Leaves
  <2>3. QED
    BY <2>1, <2>2 DEF LinkedByOthers
<1>4. QED
  BY <1>1, <1>2, <1>3

LEMMA CandidateIsName ==
  ASSUME TypeOK, NEW e \in Exporters, index[e] <= MaxIndex
  PROVE  /\ Candidate(Requested[e], index[e]) \in Names
         /\ base[e] \in FirstNames => Target(e) \in Names
<1>1. index[e] \in 1..MaxIndex /\ 1 \in 1..MaxIndex
  BY PublicationAssumption DEF TypeOK
<1>2. \A name : Candidate(name, 1) = name
  BY DEF Candidate
<1>3. Candidate(Candidate(Requested[e], index[e]), 1) \in Names
  BY <1>1 DEF Names
<1>4. base[e] \in FirstNames => Target(e) \in Names
  BY <1>1 DEF FirstNames, Target, Names
<1>5. QED
  BY <1>2, <1>3, <1>4

\* Which steps leave an exporter looking for a name.
LEMMA LookingSteps ==
  ASSUME TypeOK, NEW e \in Exporters, Phase(e), Leaves(e), Proceed(e) \/ Breakdown(e),
         pc'[e] \in {"select", "probe"}
  PROVE  \/ index'[e] = 1
         \/ pc'[e] = pc[e] /\ index'[e] = index[e] /\ base'[e] = base[e]
         \/ Select(e) /\ Taken(Candidate(Requested[e], index[e]))
         \/ Probe(e) /\ Taken(Target(e))
BY DEF TypeOK, Phase, Leaves, Ended, Publishing, Goto, Finish, Proceed, Breakdown, Start, Gather,
       Select, CreateTemp, CreateRefused, Write, CheckContext, Probe, Link, LinkTaken, Chmod,
       Exhausted, RemoveTemp, CloseWorkspace, GatherFails, WriteCancelled, ChmodFails, IOFails,
       Cancel, Kill

\* One candidate more.
LEMMA TriedNext ==
  ASSUME TypeOK, NEW e \in Exporters, pc'[e] = pc[e], base'[e] = base[e],
         index'[e] = index[e] + 1
  PROVE  Tried(e)' = Tried(e) \cup {Candidate(Destination(e), index[e])}
<1>1. index[e] \in Nat /\ index[e] >= 1
  BY PublicationAssumption DEF TypeOK
<1>2. Destination(e)' = Destination(e)
  BY DEF Destination
<1>3. 1..(index'[e] - 1) = 1..(index[e] - 1) \cup {index[e]}
  BY <1>1
<1>4. Tried(e)' = {Candidate(Destination(e), j) : j \in 1..(index'[e] - 1)}
  BY <1>2 DEF Tried
<1>5. QED
  BY <1>3, <1>4 DEF Tried

LEMMA LookingMet ==
  ASSUME TypeOK, Phases, HeldByLinked, AllLeave, NEW created, MetBy(created),
         NEW e \in Exporters, Proceed(e) \/ Breakdown(e), pc'[e] \in {"select", "probe"}
  PROVE  Tried(e)' \subseteq created \cup LinkedByOthers(e)
<1>0. Phase(e) /\ Leaves(e) /\ index[e] \in 1..(MaxIndex + 1)
  BY DEF Phases, AllLeave, TypeOK
<1>1. CASE index'[e] = 1
  <2>1. 1..(index'[e] - 1) = {}
    BY <1>1
  <2>2. QED
    BY <2>1 DEF Tried
<1>2. CASE pc'[e] = pc[e] /\ index'[e] = index[e] /\ base'[e] = base[e]
  <2>1. Tried(e)' = Tried(e)
    BY <1>2 DEF Tried, Destination
  <2>2. QED
    BY <1>2, <2>1 DEF MetBy
<1>3. CASE Select(e) /\ Taken(Candidate(Requested[e], index[e]))
  <2>1. /\ pc[e] = "select" /\ index[e] <= MaxIndex /\ index' = [index EXCEPT ![e] = @ + 1]
        /\ UNCHANGED <<pc, base>>
    BY <1>3 DEF Select
  <2>2. Candidate(Destination(e), index[e]) \in Names /\ Taken(Candidate(Destination(e), index[e]))
    BY <1>3, <2>1, CandidateIsName DEF Destination
  <2>3. e \notin linked
    BY <1>0, <2>1 DEF Phase, Ended
  <2>4. index'[e] = index[e] + 1
    BY <2>1 DEF TypeOK
  <2>5. QED
    BY <2>1, <2>2, <2>3, <2>4, TakenIsMet, TriedNext DEF MetBy
<1>4. CASE Probe(e) /\ Taken(Target(e))
  <2>1. /\ pc[e] = "probe" /\ index[e] <= MaxIndex /\ index' = [index EXCEPT ![e] = @ + 1]
        /\ UNCHANGED <<pc, base>>
    BY <1>4 DEF Probe
  <2>2. Candidate(Destination(e), index[e]) = Target(e) /\ Target(e) \in Names
    BY <1>0, <2>1, CandidateIsName DEF Destination, Target, Phase, Publishing
  <2>3. e \notin linked
    BY <1>0, <2>1 DEF Phase, Ended
  <2>4. index'[e] = index[e] + 1
    BY <2>1 DEF TypeOK
  <2>5. QED
    BY <1>4, <2>1, <2>2, <2>3, <2>4, TakenIsMet, TriedNext DEF MetBy
<1>5. QED
  BY <1>0, <1>1, <1>2, <1>3, <1>4, LookingSteps

\* A step of an exporter takes no name from those it has met or linked.
LEMMA ExporterNames ==
  ASSUME TypeOK, Phases, NEW e \in Exporters, Proceed(e) \/ Breakdown(e)
  PROVE  /\ linked \subseteq linked' /\ linked' \subseteq linked \cup {e} /\ outside' = outside
         /\ \A x \in linked : Target(x)' = Target(x)
         /\ \A n \in Names : files'[n] = Outsider => files[n] = Outsider
<1>1. outside' = outside
  BY DEF Proceed, Breakdown, Start, Gather, Select, CreateTemp, CreateRefused, Write,
     CheckContext, Probe, Link, LinkTaken, Chmod, Exhausted, RemoveTemp, CloseWorkspace,
     GatherFails, WriteCancelled, ChmodFails, IOFails, Cancel, Kill
<1>2. ASSUME NEW x \in linked, x # e PROVE Target(x)' = Target(x)
  BY <1>2, OtherFields DEF TypeOK
<1>3. Phase(e)
  BY DEF Phases
<1>4. CASE Link(e)
  <2>1. Target(e)' = Target(e) /\ linked' = linked \cup {e}
    BY <1>4 DEF Link, Target
  <2>2. \A n \in Names : files'[n] = Outsider => files[n] = Outsider
    BY <1>4, PublicationAssumption DEF Link, TypeOK
  <2>3. QED
    BY <1>1, <1>2, <2>1, <2>2
<1>5. CASE ChmodFails(e)
  <2>1. Target(e)' = Target(e) /\ linked' = linked
    BY <1>5 DEF ChmodFails, Target
  <2>2. \A n \in Names : files'[n] = Outsider => files[n] = Outsider
    BY <1>5, PublicationAssumption DEF ChmodFails, TypeOK
  <2>3. QED
    BY <1>1, <1>2, <2>1, <2>2
<1>6. CASE files' = files /\ linked' = linked /\ (e \in linked => Target(e)' = Target(e))
  BY <1>1, <1>2, <1>6
<1>7. QED
  BY <1>3, <1>4, <1>5, <1>6, FilesStep

\* An output failure without a fault or a cancellation is an exhausted search.
LEMMA OutputFailure ==
  ASSUME TypeOK, NEW e \in Exporters, Phase(e), Proceed(e) \/ Breakdown(e),
         options[e].mode # "zip", code'[e] = "output", ~faulted'[e], ~cancelled'[e]
  PROVE  Exhausted(e) \/ (code[e] = "output" /\ ~faulted[e] /\ ~cancelled[e])
BY DEF TypeOK, Phase, Ended, CanCreate, Goto, Finish, Proceed, Breakdown, Start, Gather, Select,
       CreateTemp, CreateRefused, Write, CheckContext, Probe, Link, LinkTaken, Chmod, Exhausted,
       RemoveTemp, CloseWorkspace, GatherFails, WriteCancelled, ChmodFails, IOFails,
       Cancel, Kill

\* The search ends when every candidate was met.
LEMMA ExhaustedIsOut ==
  ASSUME TypeOK, IsFiniteSet(linked), NEW created \in SUBSET Names, MetBy(created),
         NEW e \in Exporters, Exhausted(e)
  PROVE  MaxIndex <= outside.created + Cardinality(linked \ {e})
<1>1. pc[e] \in {"select", "probe"} /\ index[e] - 1 = MaxIndex /\ MaxIndex \in Nat
  BY PublicationAssumption DEF Exhausted, TypeOK
<1>2. Destination(e) \in Seq(Nat)
  BY PublicationAssumption DEF Destination, TypeOK
<1>3. {Candidate(Destination(e), j) : j \in 1..MaxIndex} \subseteq created \cup LinkedByOthers(e)
  BY <1>1 DEF MetBy, Tried
<1>4. IsFiniteSet(created) /\ Cardinality(created) <= outside.created /\ Cardinality(created) \in Nat
  BY FS_CardinalityType DEF MetBy
<1>5. /\ IsFiniteSet(LinkedByOthers(e)) /\ Cardinality(LinkedByOthers(e)) \in Nat
      /\ Cardinality(LinkedByOthers(e)) <= Cardinality(linked \ {e})
      /\ Cardinality(linked \ {e}) \in Nat
  BY ImageOfFinite, FS_CardinalityType
<1>6. MaxIndex <= Cardinality(created) + Cardinality(LinkedByOthers(e))
  BY <1>1, <1>2, <1>3, <1>4, <1>5, CandidatesFill
<1>7. outside.created \in Nat
  BY PublicationAssumption DEF TypeOK
<1>8. QED
  BY <1>1, <1>4, <1>5, <1>6, <1>7

\* The others only become more.
LEMMA OthersGrow ==
  ASSUME IsFiniteSet(linked), NEW bigger, IsFiniteSet(bigger), linked \subseteq bigger, NEW e
  PROVE  /\ Cardinality(linked \ {e}) <= Cardinality(bigger \ {e})
         /\ Cardinality(linked \ {e}) \in Nat /\ Cardinality(bigger \ {e}) \in Nat
<1>1. IsFiniteSet(linked \ {e}) /\ IsFiniteSet(bigger \ {e})
  BY FS_RemoveElement
<1>2. linked \ {e} \in SUBSET (bigger \ {e})
  OBVIOUS
<1>3. QED
  BY <1>1, <1>2, FS_Subset, FS_CardinalityType

LEMMA ExporterKeepsNames ==
  ASSUME TypeOK, Phases, HeldByLinked, AllLeave, NamesInv,
         NEW e \in Exporters, Proceed(e) \/ Breakdown(e)
  PROVE  NamesInv'
<1>1. /\ linked \subseteq linked' /\ linked' \subseteq linked \cup {e} /\ outside' = outside
      /\ \A x \in linked : Target(x)' = Target(x)
      /\ \A n \in Names : files'[n] = Outsider => files[n] = Outsider
  BY ExporterNames
<1>2. IsFiniteSet(linked) /\ IsFiniteSet(linked')
  <2>1. IsFiniteSet(linked)
    BY DEF NamesInv
  <2>2. linked' = linked \/ linked' = linked \cup {e}
    BY <1>1
  <2>3. IsFiniteSet(linked \cup {e})
    BY <2>1, FS_AddElement
  <2>4. QED
    BY <2>1, <2>2, <2>3
<1>3. PICK created \in SUBSET Names : MetBy(created)
  BY DEF NamesInv, Met
<1>4. \A x \in Exporters : LinkedByOthers(x) \subseteq LinkedByOthers(x)'
  BY <1>1 DEF LinkedByOthers
<1>5. MetBy(created)'
  <2>1. IsFiniteSet(created) /\ Cardinality(created) <= outside'.created
    BY <1>1, <1>3 DEF MetBy
  <2>2. \A n \in Names : files'[n] = Outsider => n \in created
    BY <1>1, <1>3 DEF MetBy
  <2>3. ASSUME NEW x \in Exporters, pc'[x] \in {"select", "probe"}
        PROVE  Tried(x)' \subseteq created \cup LinkedByOthers(x)
    <3>1. CASE x = e
      BY <1>3, <2>3, <3>1, LookingMet
    <3>2. CASE x # e
      <4>1. pc'[x] = pc[x] /\ base'[x] = base[x] /\ index'[x] = index[x]
        BY <3>2, StepFrame
      <4>2. Tried(x)' = Tried(x)
        BY <4>1 DEF Tried, Destination
      <4>3. QED
        BY <1>3, <2>3, <4>1, <4>2 DEF MetBy
    <3>3. QED
      BY <3>1, <3>2
  <2>4. QED
    BY <1>4, <2>1, <2>2, <2>3 DEF MetBy
<1>6. ASSUME NEW x \in Exporters PROVE OutOfNames(x)'
  <2> SUFFICES ASSUME code'[x] = "output", ~faulted'[x], ~cancelled'[x], options'[x].mode # "zip"
               PROVE  MaxIndex <= outside'.created + Cardinality(linked' \ {x})
    BY DEF OutOfNames
  <2>1. MaxIndex <= outside.created + Cardinality(linked \ {x})
    <3>0. options' = options
      BY DEF Proceed, Breakdown, Start, Gather, Select, CreateTemp, CreateRefused, Write,
         CheckContext, Probe, Link, LinkTaken, Chmod, Exhausted, RemoveTemp, CloseWorkspace,
         GatherFails, WriteCancelled, ChmodFails, IOFails, Cancel, Kill
    <3>1. CASE x # e
      <4>1. code'[x] = code[x] /\ faulted'[x] = faulted[x] /\ cancelled'[x] = cancelled[x]
        BY <3>1, StepFrame, OtherFields
      <4>2. QED
        BY <3>0, <4>1 DEF NamesInv, OutOfNames
    <3>2. CASE x = e
      <4>1. Exhausted(e) \/ (code[e] = "output" /\ ~faulted[e] /\ ~cancelled[e])
        BY <3>0, <3>2, OutputFailure DEF Phases
      <4>2. CASE Exhausted(e)
        BY <1>2, <1>3, <3>2, <4>2, ExhaustedIsOut
      <4>3. CASE code[e] = "output" /\ ~faulted[e] /\ ~cancelled[e]
        BY <3>0, <3>2, <4>3 DEF NamesInv, OutOfNames
      <4>4. QED
        BY <4>1, <4>2, <4>3
    <3>3. QED
      BY <3>1, <3>2
  <2>2. /\ Cardinality(linked \ {x}) <= Cardinality(linked' \ {x})
        /\ Cardinality(linked \ {x}) \in Nat /\ Cardinality(linked' \ {x}) \in Nat
    BY <1>1, <1>2, OthersGrow
  <2>3. outside.created \in Nat /\ MaxIndex \in Nat
    BY PublicationAssumption DEF TypeOK
  <2>4. QED
    BY <1>1, <2>1, <2>2, <2>3
<1>7. QED
  BY <1>2, <1>3, <1>5, <1>6 DEF NamesInv, Met

LEMMA OutsiderKeepsNames ==
  ASSUME TypeOK, NamesInv, NEW n \in Names, OutsiderCreates(n) \/ OutsiderRemoves(n)
  PROVE  NamesInv'
<1>1. PICK created \in SUBSET Names : MetBy(created)
  BY DEF NamesInv, Met
<1>2. /\ UNCHANGED <<options, pc, base, index, code, faulted, cancelled, linked>>
      /\ outside'.created >= outside.created /\ outside.created \in Nat /\ outside'.created \in Nat
  BY PublicationAssumption DEF OutsiderCreates, OutsiderRemoves, TypeOK
<1>3. \A x \in Exporters : Tried(x)' = Tried(x) /\ LinkedByOthers(x)' = LinkedByOthers(x)
  BY <1>2 DEF Tried, Destination, LinkedByOthers, Target
<1>4. Met'
  <2>1. CASE OutsiderCreates(n)
    <3> DEFINE more == created \cup {n}
    <3>1. outside'.created = outside.created + 1
      BY <2>1 DEF OutsiderCreates, TypeOK
    <3>2. IsFiniteSet(more) /\ Cardinality(more) <= outside'.created
      <4>1. IsFiniteSet(created) /\ Cardinality(created) <= outside.created
        BY <1>1 DEF MetBy
      <4>2. Cardinality(created) \in Nat
        BY <4>1, FS_CardinalityType
      <4>3. /\ IsFiniteSet(more)
            /\ Cardinality(more) = IF n \in created THEN Cardinality(created)
                                   ELSE Cardinality(created) + 1
        BY <4>1, FS_AddElement
      <4>4. Cardinality(more) \in Nat
        BY <4>3, FS_CardinalityType
      <4>5. QED
        BY <1>2, <3>1, <4>1, <4>2, <4>3, <4>4
    <3>3. \A m \in Names : files'[m] = Outsider => m \in more
      BY <1>1, <2>1 DEF OutsiderCreates, TypeOK, MetBy
    <3>4. MetBy(more)'
      BY <1>1, <1>2, <1>3, <3>2, <3>3 DEF MetBy
    <3>5. QED
      BY <3>4 DEF Met
  <2>2. CASE OutsiderRemoves(n)
    <3>1. \A m \in Names : files'[m] = Outsider => files[m] = Outsider
      BY <2>2, PublicationAssumption DEF OutsiderRemoves, TypeOK
    <3>2. outside'.created = outside.created
      BY <2>2 DEF OutsiderRemoves, TypeOK
    <3>3. MetBy(created)'
      BY <1>1, <1>2, <1>3, <3>1, <3>2 DEF MetBy
    <3>4. QED
      BY <3>3 DEF Met
  <2>3. QED
    BY <2>1, <2>2
<1>5. ASSUME NEW x \in Exporters PROVE OutOfNames(x)'
  <2>1. Cardinality(linked \ {x}) \in Nat
    BY ImageOfFinite DEF NamesInv
  <2>2. MaxIndex \in Nat
    BY PublicationAssumption
  <2>3. OutOfNames(x)
    BY DEF NamesInv
  <2>4. QED
    BY <1>2, <2>1, <2>2, <2>3 DEF OutOfNames
<1>6. QED
  BY <1>2, <1>4, <1>5 DEF NamesInv

LEMMA NextNames ==
  TypeOK /\ Phases /\ HeldByLinked /\ AllLeave /\ NamesInv /\ [Next]_vars => NamesInv'
<1> SUFFICES ASSUME TypeOK, Phases, HeldByLinked, AllLeave, NamesInv, [Next]_vars PROVE NamesInv'
  OBVIOUS
<1>1. CASE UNCHANGED vars
  <2>1. PICK created \in SUBSET Names : MetBy(created)
    BY DEF NamesInv, Met
  <2>2. MetBy(created)'
    BY <1>1, <2>1 DEF vars, MetBy, Tried, Destination, LinkedByOthers, Target
  <2>3. IsFiniteSet(linked') /\ \A e \in Exporters : OutOfNames(e)'
    BY <1>1 DEF vars, NamesInv, OutOfNames
  <2>4. QED
    BY <2>2, <2>3 DEF NamesInv, Met
<1>2. QED
  BY <1>1, ExporterKeepsNames, OutsiderKeepsNames DEF Next

LEMMA InitNames == Init => NamesInv
<1> SUFFICES ASSUME Init PROVE NamesInv
  OBVIOUS
<1>1. IsFiniteSet({}) /\ Cardinality({}) = 0
  BY FS_EmptySet
<1>2. linked = {} /\ outside.created = 0 /\ \A n \in Names : files[n] # Outsider
  BY PublicationAssumption DEF Init
<1>3. \A e \in Exporters : pc[e] = "start" /\ code[e] = "none"
  BY DEF Init
<1>4. MetBy({})
  BY <1>1, <1>2, <1>3 DEF MetBy
<1>5. \A e \in Exporters : OutOfNames(e)
  BY <1>3 DEF OutOfNames
<1>6. {} \in SUBSET Names
  OBVIOUS
<1>7. QED
  BY <1>1, <1>2, <1>4, <1>5, <1>6 DEF NamesInv, Met

\* A direct export or a preview that nothing interrupts fails for want of a name
\* only if the others really used as many as it tries, for any number of
\* candidates, exporters and files that come and go.
THEOREM DirectAlwaysFindsName == Spec => []DirectFindsName
<1>1. TypeOK /\ NamesInv => DirectFindsName
  <2> SUFFICES ASSUME TypeOK, NamesInv, NEW e \in Exporters, options[e].mode # "zip",
                      FailedWithNamesLeft(e)
               PROVE  FALSE
    BY DEF DirectFindsName
  <2>1. MaxIndex <= outside.created + Cardinality(linked \ {e})
    BY DEF FailedWithNamesLeft, NamesInv, OutOfNames
  <2>2. outside.created + Cardinality(linked \ {e}) < MaxIndex
    BY DEF FailedWithNamesLeft
  <2>3. outside.created \in Nat /\ MaxIndex \in Nat
    BY PublicationAssumption DEF TypeOK
  <2>4. Cardinality(linked \ {e}) \in Nat
    BY ImageOfFinite DEF NamesInv
  <2>5. QED
    BY <2>1, <2>2, <2>3, <2>4
<1>2. Init /\ [][Next]_vars => [](TypeOK /\ NamesInv)
  BY InitLeaves, NextLeaves, InitNames, NextNames, Invariants, PTL
<1>3. QED
  BY <1>1, <1>2, PTL DEF Spec
=============================================================================
