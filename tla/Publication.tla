------------------------------ MODULE Publication ------------------------------
(***************************************************************************)
(* How hce processes publish into a shared output directory: the choice of *)
(* a free name (app.uniqueDestination), the direct formats                 *)
(* (app.publishDirect), the ZIP archive (archive.Builder.Build), and the   *)
(* temporaries of app.export that every exit path has to clean up.         *)
(*                                                                         *)
(* Several exporters run at once, each in its own process, and so do other *)
(* programs that create and remove files.  A step is one system call that  *)
(* the others can see, so every check of the directory may be stale when   *)
(* the next call acts on it.  Any call may fail, a process may get SIGINT  *)
(* at any time, and it may be killed between any two calls.                *)
(*                                                                         *)
(* Abstractions.  What the sessions contain, how they are rendered, staged *)
(* and validated is one step that ends with the bytes complete, or fails.  *)
(* A name is the requested one with the suffixes it was given: <<2>> is    *)
(* usage-2, <<2, 3>> is usage-2-3.  Removing a file that the process has   *)
(* just made is taken to succeed.                                          *)
(***************************************************************************)
EXTENDS Naturals, Sequences, FiniteSets

CONSTANTS
  Exporters,      \* the processes
  Outsider,       \* any other program
  Absent,         \* no file of that name
  Requested,      \* the name each exporter is asked for
  Formats,        \* the output modes in use
  KeepTemps,      \* the values of --keep-temp in use
  MaxIndex,       \* candidates uniqueDestination tries (9999 in the code)
  MaxCreations,   \* bound: files that other programs create
  MaxRemovals     \* bound: files that other programs remove

Candidate(name, i) == IF i = 1 THEN name ELSE Append(name, i)

\* export chooses a candidate, and publishDirect a candidate of that.
Names ==
  {Candidate(Candidate(Requested[e], i), j) : e \in Exporters, i \in 1..MaxIndex, j \in 1..MaxIndex}

Modes == {"direct", "zip", "preview"}

ASSUME PublicationAssumption ==
  /\ Outsider # Absent /\ Outsider \notin Exporters /\ Absent \notin Exporters
  /\ Requested \in [Exporters -> Seq(Nat)]
  /\ Formats \subseteq Modes /\ KeepTemps \subseteq BOOLEAN
  /\ MaxIndex \in Nat \ {0}
  /\ MaxCreations \in Nat /\ MaxRemovals \in Nat

VARIABLES
  options,    \* each exporter's output mode and --keep-temp
  files,      \* the directory: whose file is under a name
  pc,         \* the next call of each exporter
  base,       \* the destination that export chose
  index,      \* uniqueDestination's loop variable
  workspace,  \* the export workspace exists
  temp,       \* the temporary of the publication exists (.hce-output-*, .hce-work-*)
  written,    \* its bytes are complete
  code,       \* the exit code, once decided
  cancelled,  \* ctx.Err() # nil
  faulted,    \* history: a system call of this exporter failed
  linked,     \* history: the exporters whose file was given a name
  outside     \* bound: how many files other programs created and removed

vars == <<options, files, pc, base, index, workspace, temp, written, code, cancelled,
          faulted, linked, outside>>

Steps == {"start", "gather", "select", "create", "write", "check", "probe", "link", "chmod",
          "cleanup", "exited", "killed"}
Codes == {"none", "success", "output", "cancelled", "other"}

Running(e) == pc[e] \notin {"exited", "killed"}
Target(e) == Candidate(base[e], index[e])
Taken(n) == files[n] # Absent

Goto(e, step) == pc' = [pc EXCEPT ![e] = step]
Finish(e, exit) == Goto(e, "cleanup") /\ code' = [code EXCEPT ![e] = exit]

-----------------------------------------------------------------------------
(* app.export around the publication *)

\* MkdirAll and NewWorkspace; a preview's workspace is not in the directory.
Start(e) ==
  /\ pc[e] = "start"
  /\ workspace' = [workspace EXCEPT ![e] = TRUE]
  /\ Goto(e, "gather")
  /\ UNCHANGED <<options, files, base, index, temp, written, code, cancelled, faulted, linked, outside>>

\* The sessions are read into the workspace.
Gather(e) ==
  /\ pc[e] = "gather"
  /\ Goto(e, "select")
  /\ UNCHANGED <<options, files, base, index, workspace, temp, written, code, cancelled, faulted,
                 linked, outside>>

\* No session is left, strict mode, a workspace error, or a cancellation.
GatherFails(e) ==
  /\ pc[e] = "gather"
  /\ \E exit \in {"other", "output"} \cup (IF cancelled[e] THEN {"cancelled"} ELSE {}) :
       /\ Finish(e, exit)
       /\ faulted' = [faulted EXCEPT ![e] = @ \/ exit = "output"]
  /\ UNCHANGED <<options, files, base, index, workspace, temp, written, cancelled, linked, outside>>

\* uniqueDestination of the requested name: the first free candidate.
Select(e) ==
  LET candidate == Candidate(Requested[e], index[e])
  IN  /\ pc[e] = "select" /\ index[e] <= MaxIndex
      /\ IF Taken(candidate)
         THEN /\ index' = [index EXCEPT ![e] = @ + 1]
              /\ UNCHANGED <<pc, base, code>>
         ELSE /\ base' = [base EXCEPT ![e] = candidate]
              /\ index' = [index EXCEPT ![e] = 1]
              /\ IF options[e].mode = "preview" THEN Finish(e, "success")
                 ELSE Goto(e, "create") /\ UNCHANGED code
      /\ UNCHANGED <<options, files, workspace, temp, written, cancelled, faulted, linked, outside>>

\* The deferred clean-up of the publication, then that of export.
RemoveTemp(e) ==
  /\ pc[e] = "cleanup" /\ temp[e]
  /\ temp' = [temp EXCEPT ![e] = FALSE]
  /\ UNCHANGED <<options, files, pc, base, index, workspace, written, code, cancelled, faulted,
                 linked, outside>>

CloseWorkspace(e) ==
  /\ pc[e] = "cleanup" /\ ~temp[e]
  /\ workspace' = [workspace EXCEPT ![e] = @ /\ options[e].keepTemp /\ code[e] # "success"]
  /\ Goto(e, "exited")
  /\ UNCHANGED <<options, files, base, index, temp, written, code, cancelled, faulted, linked, outside>>

-----------------------------------------------------------------------------
(* publishDirect and Build *)

\* Build looks at the context and at the destination first.
CanCreate(e) ==
  options[e].mode = "zip" => ~cancelled[e] /\ ~Taken(base[e])

\* CreateTemp in publishDirect; MkdirTemp in Build.
CreateTemp(e) ==
  /\ pc[e] = "create" /\ CanCreate(e)
  /\ temp' = [temp EXCEPT ![e] = TRUE]
  /\ Goto(e, "write")
  /\ UNCHANGED <<options, files, base, index, workspace, written, code, cancelled, faulted, linked,
                 outside>>

CreateRefused(e) ==
  /\ pc[e] = "create" /\ ~CanCreate(e)
  /\ Finish(e, IF cancelled[e] THEN "cancelled" ELSE "output")
  /\ UNCHANGED <<options, files, base, index, workspace, temp, written, cancelled, faulted, linked,
                 outside>>

\* Render, flush, sync and close; stage, write and validate the archive.
Write(e) ==
  /\ pc[e] = "write"
  /\ written' = [written EXCEPT ![e] = TRUE]
  /\ Goto(e, "check")
  /\ UNCHANGED <<options, files, base, index, workspace, temp, code, cancelled, faulted, linked,
                 outside>>

\* A cancelled render fails, with the context's error or with the one that
\* Replay puts in its place.
WriteCancelled(e) ==
  /\ pc[e] = "write" /\ cancelled[e]
  /\ \E exit \in {"cancelled", "output"} : Finish(e, exit)
  /\ UNCHANGED <<options, files, base, index, workspace, temp, written, cancelled, faulted, linked,
                 outside>>

CheckContext(e) ==
  /\ pc[e] = "check"
  /\ IF cancelled[e] THEN Finish(e, "cancelled")
     ELSE Goto(e, IF options[e].mode = "zip" THEN "link" ELSE "probe") /\ UNCHANGED code
  /\ UNCHANGED <<options, files, base, index, workspace, temp, written, cancelled, faulted, linked,
                 outside>>

\* uniqueDestination again, of the destination that export chose.
Probe(e) ==
  /\ pc[e] = "probe" /\ index[e] <= MaxIndex
  /\ IF Taken(Target(e)) THEN index' = [index EXCEPT ![e] = @ + 1] /\ UNCHANGED pc
     ELSE Goto(e, "link") /\ UNCHANGED index
  /\ UNCHANGED <<options, files, base, workspace, temp, written, code, cancelled, faulted, linked,
                 outside>>

MutLinkRenames(e) ==
  /\ pc[e] = "link"
  /\ files' = [files EXCEPT ![Target(e)] = e]
  /\ linked' = linked \cup {e}
  /\ Goto(e, "chmod")
  /\ UNCHANGED <<options, base, index, workspace, temp, written, code, cancelled, faulted, outside>>

\* os.Link creates the name if it is free, in one step.
Link(e) ==
  /\ pc[e] = "link" /\ ~Taken(Target(e))
  /\ files' = [files EXCEPT ![Target(e)] = e]
  /\ linked' = linked \cup {e}
  /\ Goto(e, "chmod")
  /\ UNCHANGED <<options, base, index, workspace, temp, written, code, cancelled, faulted, outside>>

MutLinkTakenGivesUp(e) ==
  /\ pc[e] = "link" /\ Taken(Target(e))
  /\ Finish(e, "output") /\ UNCHANGED index
  /\ UNCHANGED <<options, files, base, workspace, temp, written, cancelled, faulted, linked, outside>>

MutLinkTakenTriesNoMore(e) ==
  /\ pc[e] = "link" /\ Taken(Target(e))
  /\ UNCHANGED vars

MutLinkTakenRestartsAtZero(e) ==
  /\ pc[e] = "link" /\ Taken(Target(e))
  /\ IF options[e].mode = "zip" THEN Finish(e, "output") /\ UNCHANGED index
     ELSE Goto(e, "probe") /\ index' = [index EXCEPT ![e] = 0] /\ UNCHANGED code
  /\ UNCHANGED <<options, files, base, workspace, temp, written, cancelled, faulted, linked, outside>>

\* It fails if the name is taken: publishDirect looks for another, Build gives up.
LinkTaken(e) ==
  /\ pc[e] = "link" /\ Taken(Target(e))
  /\ IF options[e].mode = "zip" THEN Finish(e, "output") /\ UNCHANGED index
     ELSE Goto(e, "probe") /\ index' = [index EXCEPT ![e] = 1] /\ UNCHANGED code
  /\ UNCHANGED <<options, files, base, workspace, temp, written, cancelled, faulted, linked, outside>>

\* Chmod is given the name, not the file.
Chmod(e) ==
  /\ pc[e] = "chmod" /\ Taken(Target(e))
  /\ Finish(e, "success")
  /\ UNCHANGED <<options, files, base, index, workspace, temp, written, cancelled, faulted, linked,
                 outside>>

MutChmodFailsLeavesFile(e) ==
  /\ pc[e] = "chmod"
  /\ Finish(e, "output")
  /\ faulted' = [faulted EXCEPT ![e] = TRUE]
  /\ UNCHANGED <<options, files, base, index, workspace, temp, written, cancelled, linked, outside>>

\* And Remove after it, whatever is under the name by then.
ChmodFails(e) ==
  /\ pc[e] = "chmod"
  /\ files' = [files EXCEPT ![Target(e)] = Absent]
  /\ Finish(e, "output")
  /\ faulted' = [faulted EXCEPT ![e] = TRUE]
  /\ UNCHANGED <<options, base, index, workspace, temp, written, cancelled, linked, outside>>

-----------------------------------------------------------------------------
(* Failures *)

MutIOFailsIgnoredByWrite(e) ==
  /\ pc[e] \in {"start", "select", "create", "write", "probe", "link"}
  /\ faulted' = [faulted EXCEPT ![e] = TRUE]
  /\ IF pc[e] = "write" THEN Goto(e, "check") /\ UNCHANGED code ELSE Finish(e, "output")
  /\ UNCHANGED <<options, files, base, index, workspace, temp, written, cancelled, linked, outside>>

\* The error of the call that comes next, other than those above.
IOFails(e) ==
  /\ pc[e] \in {"start", "select", "create", "write", "probe", "link"}
  /\ faulted' = [faulted EXCEPT ![e] = TRUE]
  /\ Finish(e, "output")
  /\ UNCHANGED <<options, files, base, index, workspace, temp, written, cancelled, linked, outside>>

\* uniqueDestination has no candidate left.
Exhausted(e) ==
  /\ pc[e] \in {"select", "probe"} /\ index[e] > MaxIndex
  /\ Finish(e, "output")
  /\ UNCHANGED <<options, files, base, index, workspace, temp, written, cancelled, faulted, linked,
                 outside>>

Cancel(e) ==
  /\ Running(e) /\ ~cancelled[e]
  /\ cancelled' = [cancelled EXCEPT ![e] = TRUE]
  /\ UNCHANGED <<options, files, pc, base, index, workspace, temp, written, code, faulted, linked,
                 outside>>

\* SIGKILL, or the machine going down with its file system intact.
Kill(e) ==
  /\ Running(e)
  /\ Goto(e, "killed")
  /\ UNCHANGED <<options, files, base, index, workspace, temp, written, code, cancelled, faulted,
                 linked, outside>>

OutsiderCreates(n) ==
  /\ ~Taken(n) /\ outside.created < MaxCreations
  /\ files' = [files EXCEPT ![n] = Outsider]
  /\ outside' = [outside EXCEPT !.created = @ + 1]
  /\ UNCHANGED <<options, pc, base, index, workspace, temp, written, code, cancelled, faulted, linked>>

OutsiderRemoves(n) ==
  /\ Taken(n) /\ outside.removed < MaxRemovals
  /\ files' = [files EXCEPT ![n] = Absent]
  /\ outside' = [outside EXCEPT !.removed = @ + 1]
  /\ UNCHANGED <<options, pc, base, index, workspace, temp, written, code, cancelled, faulted, linked>>

-----------------------------------------------------------------------------
Init ==
  /\ options \in [Exporters -> [mode : Formats, keepTemp : KeepTemps]]
  /\ files = [n \in Names |-> Absent]
  /\ pc = [e \in Exporters |-> "start"]
  /\ base = Requested
  /\ index = [e \in Exporters |-> 1]
  /\ workspace = [e \in Exporters |-> FALSE]
  /\ temp = [e \in Exporters |-> FALSE]
  /\ written = [e \in Exporters |-> FALSE]
  /\ code = [e \in Exporters |-> "none"]
  /\ cancelled = [e \in Exporters |-> FALSE]
  /\ faulted = [e \in Exporters |-> FALSE]
  /\ linked = {}
  /\ outside = [created |-> 0, removed |-> 0]

\* The calls that the program makes by itself.
Proceed(e) ==
  \/ Start(e) \/ Gather(e) \/ Select(e) \/ CreateTemp(e) \/ CreateRefused(e) \/ Write(e)
  \/ CheckContext(e) \/ Probe(e) \/ Link(e) \/ LinkTaken(e) \/ Chmod(e) \/ Exhausted(e)
  \/ RemoveTemp(e) \/ CloseWorkspace(e)

\* And how they go wrong.
Breakdown(e) ==
  GatherFails(e) \/ WriteCancelled(e) \/ ChmodFails(e) \/ IOFails(e) \/ Cancel(e) \/ Kill(e)

Next ==
  \/ \E e \in Exporters : Proceed(e) \/ Breakdown(e)
  \/ \E n \in Names : OutsiderCreates(n) \/ OutsiderRemoves(n)

\* Each exporter is a process that runs on; Chmod fails if its file was removed.
Fairness ==
  \A e \in Exporters : WF_vars(Proceed(e) \/ (ChmodFails(e) /\ ~Taken(Target(e))))

Spec == Init /\ [][Next]_vars /\ Fairness

-----------------------------------------------------------------------------
(* Properties *)

\* The range of every variable.
TypeOK ==
  /\ options \in [Exporters -> [mode : Formats, keepTemp : KeepTemps]]
  /\ files \in [Names -> Exporters \cup {Outsider, Absent}]
  /\ pc \in [Exporters -> Steps]
  /\ base \in [Exporters -> Seq(Nat)]
  /\ index \in [Exporters -> 1..(MaxIndex + 1)]
  /\ workspace \in [Exporters -> BOOLEAN]
  /\ temp \in [Exporters -> BOOLEAN]
  /\ written \in [Exporters -> BOOLEAN]
  /\ code \in [Exporters -> Codes]
  /\ cancelled \in [Exporters -> BOOLEAN]
  /\ faulted \in [Exporters -> BOOLEAN]
  /\ linked \in SUBSET Exporters
  /\ outside \in [created : 0..MaxCreations, removed : 0..MaxRemovals]

\* A name is given to an export only when its bytes are complete, so not even a
\* process killed half way leaves a torn output file (README.md:166-168).
OutputWhole ==
  \A n \in Names : \A e \in Exporters : files[n] = e => written[e]

\* An exporter that reports success has its file under the name it reports,
\* whoever else published or chose names meanwhile; so no two of them report
\* the same name.  A file that another program removes is not its business.
SuccessIsThere ==
  outside.removed = 0 =>
    \A e \in Exporters :
      code[e] = "success" /\ options[e].mode # "preview" => files[Target(e)] = e

\* An exporter that ends without success has published nothing, and none that
\* ends leaves a temporary behind: only a failed export with --keep-temp leaves
\* its workspace (app.go:291-298, output.go:41, archive.go:85).
NothingLeftBehind ==
  \A e \in Exporters :
    pc[e] = "exited" =>
      /\ code[e] # "success" \/ options[e].mode = "preview" => \A n \in Names : files[n] # e
      /\ ~temp[e]
      /\ workspace[e] => options[e].keepTemp /\ code[e] # "success"

\* An exporter whose system calls all worked and that nobody cancelled, but
\* that ends in an output failure although fewer names were ever taken by
\* others than it may try.
FailedWithNamesLeft(e) ==
  /\ pc[e] = "exited" /\ code[e] = "output" /\ ~faulted[e] /\ ~cancelled[e]
  /\ outside.created + Cardinality(linked \ {e}) < MaxIndex

\* Losing races for names never makes a direct export or a preview fail: it
\* finds a name as long as the others have not used them all.
DirectFindsName ==
  \A e \in Exporters : options[e].mode # "zip" => ~FailedWithNamesLeft(e)

\* README.md:96-97: "Existing files are never overwritten---a second export
\* receives a suffix such as usage-2.zip."  It says so of every format: one that
\* has its file written, and finds at the link that another export has the name,
\* is to have another name.
SecondExportGetsSuffix == \A e \in Exporters : written[e] => ~FailedWithNamesLeft(e)

\* archive.go:118-119, of the removal after a failed Chmod: "Remove it only if
\* it is still the hard link we created, which is necessarily true before this
\* returns."
RemovesOnlyItsOwn ==
  [][\A n \in Names :
       Taken(n) /\ files'[n] = Absent /\ outside' = outside =>
         \E e \in Exporters : files[n] = e /\ pc[e] = "chmod" /\ pc'[e] # "chmod"]_vars

\* Every exporter that is not killed exits.
ExporterEnds == \A e \in Exporters : <>~Running(e)

\* How far OutputDirectory takes an exporter's publication to be.
Stage ==
  [e \in Exporters |->
     IF e \in linked
     THEN IF code[e] = "none" THEN "published"
          ELSE IF code[e] = "success" THEN "confirmed" ELSE "quit"
     ELSE IF code[e] = "none" THEN "working" ELSE "quit"]

AbstractDirectory == INSTANCE OutputDirectory WITH stage <- Stage

\* Together the exporters treat the directory as they should: names are given
\* in one step and only when free, at most one to an exporter, and an exporter
\* takes back no file but its own (as long as no other program removes files).
ImplementsDirectory == AbstractDirectory!Spec

=============================================================================
