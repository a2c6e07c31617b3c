------------------------------- MODULE Discovery ------------------------------
(***************************************************************************)
(* Detect and Discover of the four adapters: which directories to look in, *)
(* and walking them while the harness goes on changing them.               *)
(*                                                                         *)
(* A base is a directory the walk starts from: <root>/projects for Claude  *)
(* Code, <root>/sessions and <root>/archived_sessions for Codex, a root    *)
(* for Pi, <root>/session for the legacy layout of OpenCode.  Under it lie *)
(* directories of entries: store.bases[b] is a set of [directory, name,    *)
(* kind], a "transcript", a symbolic "link", or an "other" file.  WalkDir  *)
(* lists a directory, in order of names, when it reaches it, and asks for  *)
(* an entry's Info when it reaches that.  Glob has the whole list before   *)
(* the first file is looked at.                                            *)
(*                                                                         *)
(* store.candidates are the places the options, the environment and the    *)
(* home directory name, in this order: [path, default, link, bases]; two   *)
(* paths may lead to the same bases, and one that does not exist to none.  *)
(***************************************************************************)
EXTENDS Reading

Styles == {"claude", "codex", "pi", "legacy"}

EntryRecords == [directory : Nat, name : Nat, kind : {"transcript", "link", "other"}]

\* A path leads to one place, with directories of its own; Claude Code and Pi
\* have one in it.  Where the home directory leads is named last.
IsWalk(walk) ==
  /\ walk \in [style : Styles, bases : Seq(SUBSET EntryRecords),
               candidates : Seq([path : Nat, default : BOOLEAN, link : BOOLEAN, bases : Seq(Nat)])]
  /\ \A base \in DOMAIN walk.bases : IsFiniteSet(walk.bases[base])
  /\ \A i, j \in DOMAIN walk.candidates :
       LET c == walk.candidates[i] IN
       /\ c.path = walk.candidates[j].path => c.bases = walk.candidates[j].bases
       /\ \A n \in DOMAIN c.bases : c.bases[n] \in DOMAIN walk.bases
       /\ \A m, n \in DOMAIN c.bases : c.bases[m] = c.bases[n] => m = n
       /\ walk.style \in {"claude", "pi"} => Len(c.bases) <= 1
       /\ c.default => j <= i

EverListed ==
  Additions["walk"] \cup UNION {UNION ToSet(b.store.bases) : b \in Beginnings["walk"]}

\* A name is in a directory once, and stays what it is.
ASSUME DiscoveryAssumption ==
  /\ \A b \in Beginnings["walk"] : IsWalk(b.store)
  /\ Additions["walk"] \subseteq EntryRecords
  /\ \A e, f \in EverListed : e.directory = f.directory /\ e.name = f.name => e = f

\* candidateRoots: a path that was named before is not looked at again; only
\* Pi leaves that to Detect.
Candidates ==
  LET named == store.candidates
      again(i) == \E j \in 1..(i - 1) : named[j].path = named[i].path
      kept == {i \in DOMAIN named : store.style = "pi" \/ ~again(i)}
  IN At(named, kept)

\* Detect passes over the default place when it is a symbolic link.  Pi and
\* OpenCode know a root again by its canonical path.
Roots ==
  LET found == At(Candidates, {i \in DOMAIN Candidates :
                 LET c == Candidates[i] IN c.bases # <<>> /\ ~(c.default /\ c.link)})
      bases == FlattenSeq([i \in DOMAIN found |-> found[i].bases])
      again(i) == \E j \in 1..(i - 1) : bases[j] = bases[i]
  IN At(bases, {i \in DOMAIN bases : store.style \in {"claude", "codex"} \/ ~again(i)})

\* A base with nothing in it stands for one that is missing.
Base == reader.roots[reader.base]
Entries == store.bases[Base]
Directories == {e.directory : e \in Entries}
EntryOrder(e, f) ==
  e.directory < f.directory \/ (e.directory = f.directory /\ e.name < f.name)
Sorted(entries) == Arranged(entries, [e \in entries |-> {f \in entries : EntryOrder(f, e)}])
ListedIn(directory) == Sorted({e \in Entries : e.directory = directory})

Walking(pc) == harness = "walk" /\ reader.pc = pc /\ ~cancelled

NextBase == [reader EXCEPT !.pc = "base", !.base = @ + 1, !.directories = <<>>, !.names = <<>>]

WalkDetects ==
  /\ harness = "walk" /\ reader.pc = "detect"
  /\ reader' = [reader EXCEPT !.pc = "base", !.roots = Roots]
  /\ UNCHANGED <<harness, store, emitted, seen, cancelled, writes>>

\* Every adapter passes over a base that does not exist.
WalkOpensBase ==
  /\ Walking("base")
  /\ reader' =
       IF reader.base > Len(reader.roots) THEN [reader EXCEPT !.pc = "done"]
       ELSE IF store.style = "legacy"
       THEN [reader EXCEPT !.pc = "entries",
               !.names = Sorted({e \in Entries : e.kind # "other"})]
       ELSE [reader EXCEPT !.pc = "entries", !.directories = Ascending(Directories)]
  /\ UNCHANGED <<harness, store, emitted, seen, cancelled, writes>>

MutWalkVanishedSkipsBase == reader' = NextBase

\* What is in the way was there when its directory was listed and is gone now:
\* Claude Code's Discover takes any ErrNotExist for a missing base.
WalkVanished ==
  reader' = CASE store.style = "claude" -> NextBase
              [] store.style \in {"codex", "pi"} -> [reader EXCEPT !.pc = "done", !.error = "read_error"]
              [] store.style = "legacy" -> [reader EXCEPT !.names = Tail(@)]

WalkEntersDirectory ==
  /\ Walking("entries") /\ reader.names = <<>> /\ reader.directories # <<>>
  /\ LET directory == Head(reader.directories) IN
     IF directory \in Directories
     THEN reader' = [reader EXCEPT !.directories = Tail(@), !.names = ListedIn(directory)]
     ELSE WalkVanished
  /\ UNCHANGED <<harness, store, emitted, seen, cancelled, writes>>

\* A walk passes over links and other files by what the listing said of them,
\* and asks for the Info of a transcript only; Glob lists names, and Stat
\* follows a link.
WalkVisits ==
  /\ Walking("entries") /\ reader.names # <<>>
  /\ LET listed == Head(reader.names)
         path == <<listed.directory, listed.name>>
         there == path \in {<<e.directory, e.name>> : e \in Entries}
     IN IF store.style # "legacy" /\ listed.kind # "transcript"
        THEN reader' = [reader EXCEPT !.names = Tail(@)]
        ELSE IF ~there THEN WalkVanished
        ELSE reader' = [reader EXCEPT !.names = Tail(@), !.found = Append(@, <<Base, path>>)]
  /\ UNCHANGED <<harness, store, emitted, seen, cancelled, writes>>

WalkEndsBase ==
  /\ Walking("entries") /\ reader.names = <<>> /\ reader.directories = <<>>
  /\ reader' = NextBase
  /\ UNCHANGED <<harness, store, emitted, seen, cancelled, writes>>

\* A failing system call, or the context, ends the walk.
WalkFails ==
  /\ harness = "walk" /\ Running
  /\ \E code \in {"read_error"} \cup (IF cancelled THEN {"cancelled"} ELSE {}) :
       reader' = [reader EXCEPT !.pc = "done", !.error = code]
  /\ UNCHANGED <<harness, store, emitted, seen, cancelled, writes>>

WalkHarnessCreates ==
  /\ harness = "walk" /\ MayWrite
  /\ \E base \in DOMAIN store.bases, entry \in Additions["walk"] :
       store' = [store EXCEPT !.bases[base] = @ \cup {entry}]
  /\ writes' = writes - 1
  /\ UNCHANGED <<harness, reader, emitted, seen, cancelled>>

WalkHarnessRemoves ==
  /\ harness = "walk" /\ MayWrite
  /\ \E base \in DOMAIN store.bases : \E entry \in store.bases[base] :
       /\ store' = [store EXCEPT !.bases[base] = @ \ {entry}]
       /\ seen' = [seen EXCEPT !.touched = @ \cup {<<base, <<entry.directory, entry.name>>>>}]
  /\ writes' = writes - 1
  /\ UNCHANGED <<harness, reader, emitted, cancelled>>

=============================================================================
