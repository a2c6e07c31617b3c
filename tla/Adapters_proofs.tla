---------------------------- MODULE Adapters_proofs ---------------------------
(***************************************************************************)
(* Proofs about Adapters: what the records of each format tell, the two    *)
(* readings of a file's status around Parse, the identity a probe gives a  *)
(* session, and the walk of Discover, for any records, any number of       *)
(* writes, any ProbeLines and any directories.                             *)
(***************************************************************************)
EXTENDS Adapters, FiniteTheorems, SequenceTheorems

(***************************************************************************)
(* Flattening, which the library computes with a recursive function.       *)
(***************************************************************************)

\* The function that FlattenSeq chooses, and the equations it satisfies.
Flattening(seqs) ==
  CHOOSE f : f = [i \in 1..Len(seqs) |-> IF i = 1 THEN seqs[i] ELSE f[i - 1] \o seqs[i]]

Flattens(f, seqs, n) ==
  /\ DOMAIN f = 1..n
  /\ \A i \in 1..n : f[i] = IF i = 1 THEN seqs[i] ELSE f[i - 1] \o seqs[i]

LEMMA FlattenSeqIs ==
  ASSUME NEW seqs, Len(seqs) # 0
  PROVE  FlattenSeq(seqs) = Flattening(seqs)[Len(seqs)]
BY DEF FlattenSeq, Flattening

LEMMA FlattensAt ==
  ASSUME NEW seqs, NEW n \in Nat, NEW f, Flattens(f, seqs, n), NEW i \in Nat, i < n
  PROVE  f[i + 1] = IF i = 0 THEN seqs[i + 1] ELSE f[i] \o seqs[i + 1]
<1> DEFINE k == i + 1
<1>1. k \in 1..n /\ k - 1 = i /\ (k = 1 <=> i = 0)
  OBVIOUS
<1> HIDE DEF k
<1>2. f[k] = IF k = 1 THEN seqs[k] ELSE f[k - 1] \o seqs[k]
  BY <1>1 DEF Flattens
<1>3. f[k] = IF i = 0 THEN seqs[k] ELSE f[i] \o seqs[k]
  BY <1>1, <1>2, Zenon
<1>4. QED
  BY <1>3 DEF k

\* One more step of the recursion.
LEMMA FlattensOn ==
  ASSUME NEW S, NEW seqs, NEW m \in Nat, NEW f, Flattens(f, seqs, m)
  PROVE  \E g : Flattens(g, seqs, m + 1)
<1> DEFINE last == IF m = 0 THEN seqs[1] ELSE f[m] \o seqs[m + 1]
           g == [i \in 1..(m + 1) |-> IF i = m + 1 THEN last ELSE f[i]]
<1> HIDE DEF last
<1>1. g[m + 1] = last /\ DOMAIN g = 1..(m + 1) /\ \A i \in 1..m : g[i] = f[i]
  OBVIOUS
<1>2. DOMAIN f = 1..m /\ \A i \in 1..m : f[i] = IF i = 1 THEN seqs[i] ELSE f[i - 1] \o seqs[i]
  BY DEF Flattens
<1>3. last = IF m = 0 THEN seqs[1] ELSE f[m] \o seqs[m + 1]
  BY DEF last
<1> HIDE DEF g
<1>4. ASSUME NEW i \in 1..(m + 1) PROVE g[i] = IF i = 1 THEN seqs[i] ELSE g[i - 1] \o seqs[i]
  <2>1. CASE i = m + 1
    <3>1. CASE m = 0
      BY <1>1, <1>3, <2>1, <3>1
    <3>2. CASE m # 0
      <4>1. g[i - 1] = f[m] /\ i # 1
        BY <1>1, <2>1, <3>2
      <4>2. g[i] = last /\ last = f[m] \o seqs[i]
        BY <1>1, <1>3, <2>1, <3>2, Zenon
      <4>3. QED
        BY <4>1, <4>2, Zenon
    <3>3. QED
      BY <3>1, <3>2
  <2>2. CASE i # m + 1
    <3>1. i \in 1..m /\ (i # 1 => i - 1 \in 1..m)
      BY <2>2
    <3>2. QED
      BY <1>1, <1>2, <3>1
  <2>3. QED
    BY <2>1, <2>2
<1>5. QED
  BY <1>1, <1>4 DEF Flattens

LEMMA FlatteningIs ==
  ASSUME NEW seqs, Len(seqs) \in Nat
  PROVE  Flattens(Flattening(seqs), seqs, Len(seqs))
<1> DEFINE N == Len(seqs)
           Good == {m \in Nat : \E f : Flattens(f, seqs, m)}
           Is(f) == f = [i \in 1..N |-> IF i = 1 THEN seqs[i] ELSE f[i - 1] \o seqs[i]]
           c == CHOOSE f : Is(f)
<1>1. Inductive(Good, N)
  <2>1. 0 \in Good
    <3>1. Flattens([i \in 1..0 |-> 0], seqs, 0)
      BY DEF Flattens
    <3>2. QED
      BY <3>1
  <2>2. ASSUME NEW m \in Nat, m \in Good PROVE m + 1 \in Good
    BY <2>2, FlattensOn
  <2>3. QED
    BY <2>1, <2>2 DEF Inductive
<1>2. PICK f : Flattens(f, seqs, N)
  <2> HIDE DEF Good
  <2>1. N \in Good
    BY <1>1, Upward
  <2>2. QED
    BY <2>1 DEF Good
<1>3. ASSUME NEW g PROVE Flattens(g, seqs, N) /\ (\E S, T : g \in [S -> T]) => Is(g)
  BY DEF Flattens
<1> DEFINE h == [i \in 1..N |-> f[i]]
<1>4. Is(h)
  <2>1. \A i \in 1..N : h[i] = f[i] /\ (i # 1 => h[i - 1] = f[i - 1])
    OBVIOUS
  <2>2. \A i \in 1..N : f[i] = IF i = 1 THEN seqs[i] ELSE f[i - 1] \o seqs[i]
    BY <1>2 DEF Flattens
  <2>3. \A i \in 1..N : h[i] = IF i = 1 THEN seqs[i] ELSE h[i - 1] \o seqs[i]
    BY <2>1, <2>2
  <2>4. h = [i \in 1..N |-> h[i]]
    OBVIOUS
  <2> HIDE DEF h
  <2>5. QED
    BY <2>3, <2>4
<1>5. Is(c)
  <2> HIDE DEF h
  <2>1. QED
    BY <1>4
<1>6. Flattening(seqs) = c
  BY DEF Flattening
<1>7. c = [i \in 1..N |-> IF i = 1 THEN seqs[i] ELSE c[i - 1] \o seqs[i]]
  BY <1>5
<1> HIDE DEF c, N
<1>8. DOMAIN c = 1..N /\ \A i \in 1..N : c[i] = IF i = 1 THEN seqs[i] ELSE c[i - 1] \o seqs[i]
  BY <1>7
<1>9. QED
  BY <1>6, <1>8 DEF Flattens, N

\* Two such functions agree as far as the sequences do.
Agree(s, t, n) == \A i \in 1..n : s[i] = t[i]

LEMMA FlatteningsAgree ==
  ASSUME NEW s, NEW t, NEW m \in Nat, NEW n \in Nat, NEW k \in Nat, k <= m, k <= n, NEW f, NEW g,
         Flattens(f, s, m), Flattens(g, t, n), Agree(s, t, k)
  PROVE  Agree(f, g, k)
<1> DEFINE Good == {i \in Nat : i = 0 \/ f[i] = g[i]}
<1>1. Inductive(Good, k)
  <2> SUFFICES ASSUME NEW i \in Nat, i < k, i \in Good PROVE f[i + 1] = g[i + 1]
    BY DEF Inductive
  <2>1. i + 1 \in 1..m /\ i + 1 \in 1..n /\ i + 1 \in 1..k /\ i + 1 - 1 = i /\ (i + 1 = 1 <=> i = 0)
    OBVIOUS
  <2>2. f[i + 1] = IF i = 0 THEN s[i + 1] ELSE f[i] \o s[i + 1]
    <3>1. i < m
      OBVIOUS
    <3>2. QED
      BY <3>1, FlattensAt
  <2>3. g[i + 1] = IF i = 0 THEN t[i + 1] ELSE g[i] \o t[i + 1]
    <3>1. i < n
      OBVIOUS
    <3>2. QED
      BY <3>1, FlattensAt
  <2>4. s[i + 1] = t[i + 1] /\ (i # 0 => f[i] = g[i])
    BY <2>1 DEF Agree
  <2>5. QED
    BY <2>2, <2>3, <2>4
<1>2. \A i \in 0..k : i \in Good
  <2> HIDE DEF Good
  <2>1. QED
    BY <1>1, Upward
<1>3. QED
  BY <1>2 DEF Agree

LEMMA FlattenNone == FlattenSeq(<<>>) = <<>>
BY DEF FlattenSeq

LEMMA FlattenType ==
  ASSUME NEW S, NEW seqs \in Seq(Seq(S))
  PROVE  FlattenSeq(seqs) \in Seq(S)
<1> DEFINE N == Len(seqs)
           f == Flattening(seqs)
           Good == {i \in Nat : i = 0 \/ f[i] \in Seq(S)}
<1>0. N \in Nat /\ \A i \in 1..N : seqs[i] \in Seq(S)
  OBVIOUS
<1>1. Flattens(f, seqs, N)
  BY <1>0, FlatteningIs
<1>2. N # 0 => FlattenSeq(seqs) = f[N]
  BY FlattenSeqIs
<1>3. N = 0 => FlattenSeq(seqs) = <<>>
  BY DEF FlattenSeq
<1> HIDE DEF f, N
<1>4. Inductive(Good, N)
  <2> SUFFICES ASSUME NEW i \in Nat, i < N, i \in Good PROVE f[i + 1] \in Seq(S)
    BY DEF Inductive
  <2>1. i + 1 \in 1..N /\ i + 1 - 1 = i /\ (i + 1 = 1 <=> i = 0)
    BY <1>0
  <2>2. f[i + 1] = IF i = 0 THEN seqs[i + 1] ELSE f[i] \o seqs[i + 1]
    BY <1>0, <1>1, FlattensAt
  <2>3. seqs[i + 1] \in Seq(S) /\ (i # 0 => f[i] \in Seq(S))
    BY <1>0, <2>1
  <2>4. QED
    BY <2>2, <2>3
<1>5. N # 0 => f[N] \in Seq(S)
  <2> HIDE DEF Good
  <2>1. N \in Good
    BY <1>0, <1>4, Upward
  <2>2. QED
    BY <1>0, <2>1 DEF Good
<1>6. QED
  <2>1. <<>> \in Seq(S)
    OBVIOUS
  <2>2. QED
    BY <1>2, <1>3, <1>5, <2>1, Zenon

\* One more sequence goes to the end.
LEMMA FlattenAppend ==
  ASSUME NEW S, NEW seqs \in Seq(Seq(S)), NEW last \in Seq(S)
  PROVE  FlattenSeq(Append(seqs, last)) = FlattenSeq(seqs) \o last
<1> DEFINE more == Append(seqs, last)
           N == Len(seqs)
           f == Flattening(seqs)
           g == Flattening(more)
<1>1. N \in Nat /\ Len(more) = N + 1 /\ more[N + 1] = last /\ \A i \in 1..N : more[i] = seqs[i]
  OBVIOUS
<1>2. Flattens(f, seqs, N)
  BY <1>1, FlatteningIs
<1>3. N # 0 => FlattenSeq(seqs) = f[N]
  BY FlattenSeqIs
<1>4. N = 0 => FlattenSeq(seqs) = <<>>
  BY DEF FlattenSeq
<1>5. <<>> \o last = last
  OBVIOUS
<1> HIDE DEF more, f, N
<1>6. Flattens(g, more, N + 1)
  BY <1>1, FlatteningIs
<1>7. FlattenSeq(more) = g[N + 1]
  BY <1>1, FlattenSeqIs
<1> HIDE DEF g
<1>8. Agree(f, g, N)
  <2>1. Agree(seqs, more, N) /\ N + 1 \in Nat /\ N <= N + 1
    BY <1>1 DEF Agree
  <2>2. QED
    BY <1>1, <1>2, <1>6, <2>1, FlatteningsAgree
<1>9. g[N + 1] = IF N = 0 THEN last ELSE g[N] \o last
  <2>1. N + 1 \in Nat /\ N < N + 1
    BY <1>1
  <2>2. g[N + 1] = IF N = 0 THEN more[N + 1] ELSE g[N] \o more[N + 1]
    BY <1>1, <1>6, <2>1, FlattensAt
  <2>3. QED
    BY <1>1, <2>2, Zenon
<1>10. N # 0 => g[N] = f[N]
  BY <1>1, <1>8 DEF Agree
<1>11. QED
  BY <1>3, <1>4, <1>5, <1>7, <1>9, <1>10 DEF more

(***************************************************************************)
(* What usageEvent keeps of the events of one record.                      *)
(***************************************************************************)

\* The message in an event.
Told(event) ==
  IF Usable(event)
  THEN <<[speaker |-> event.role, pos |-> event.pos, parts |-> VisibleParts(event.content)]>> ELSE <<>>

\* Of the events of one record only the first may be a message.
FirstOnly(events, n) == DOMAIN events = 1..n /\ \A i \in 1..n : i # 1 => ~Usable(events[i])

LEMMA AtOne ==
  ASSUME NEW sequence, NEW p \in Nat
  PROVE  /\ At(sequence, {p}) = <<sequence[p]>>
         /\ At(sequence, {}) = <<>>
<1>1. At(sequence, {p}) = <<sequence[p]>>
  <2> DEFINE f == [n \in 1..1 |-> p]
  <2>1. Enumerates(f, 1, {p})
    BY DEF Enumerates
  <2>2. At(sequence, {p}) = Named(sequence, f, 1)
    BY <2>1, AtEnumerated
  <2>3. QED
    BY <2>2 DEF Named
<1>2. At(sequence, {}) = <<>>
  <2> DEFINE f == [n \in 1..0 |-> 0]
  <2>1. Enumerates(f, 0, {})
    BY DEF Enumerates
  <2>2. At(sequence, {}) = Named(sequence, f, 0)
    BY <2>1, AtEnumerated
  <2>3. QED
    BY <2>2 DEF Named
<1>3. QED
  BY <1>1, <1>2

LEMMA FirstIsTold ==
  ASSUME NEW events, NEW n \in Nat, FirstOnly(events, n)
  PROVE  UsageEvents(events) = IF n = 0 THEN <<>> ELSE Told(events[1])
<1> DEFINE W == {i \in DOMAIN events : Usable(events[i])}
           kept == At(events, W)
           Message(event) == [speaker |-> event.role, pos |-> event.pos, parts |-> VisibleParts(event.content)]
<1>1. UsageEvents(events) = [i \in DOMAIN kept |-> Message(kept[i])]
  BY DEF UsageEvents
<1>2. CASE n # 0 /\ Usable(events[1])
  <2>1. W = {1}
    BY <1>2 DEF FirstOnly
  <2>2. kept = <<events[1]>>
    BY <2>1, AtOne
  <2> HIDE DEF kept, Message
  <2>3. UsageEvents(events) = <<Message(events[1])>>
    BY <1>1, <2>2
  <2>4. QED
    BY <1>2, <2>3 DEF Told, Message
<1>3. CASE ~(n # 0 /\ Usable(events[1]))
  <2>1. W = {}
    BY <1>3 DEF FirstOnly
  <2>2. kept = <<>>
    BY <2>1, AtOne
  <2> HIDE DEF kept, Message
  <2>3. UsageEvents(events) = <<>>
    BY <1>1, <2>2
  <2>4. QED
    BY <1>3, <2>3 DEF Told
<1>4. QED
  BY <1>2, <1>3

(***************************************************************************)
(* What is visible of a record's parts.                                    *)
(***************************************************************************)

\* The blocks of parts, of which those of a hidden type hold reasoning.
Mirrors(content, parts, hidden) ==
  /\ DOMAIN content = DOMAIN parts
  /\ \A i \in DOMAIN parts :
       /\ content[i].text = parts[i].text
       /\ parts[i].type \in {"image", "audio"} => content[i].kind = parts[i].type
       /\ content[i].kind \in {"image", "audio"} => content[i].kind = parts[i].type
       /\ content[i].kind \in ReasoningKinds <=> parts[i].type \in hidden

Markers == {"words", "image", "audio"}

LEMMA Visible ==
  ASSUME NEW n \in Nat, NEW content, NEW parts, DOMAIN parts = 1..n, NEW hidden,
         hidden \cap {"image", "audio"} = {}, Mirrors(content, parts, hidden)
  PROVE  VisibleParts(content) = Shown(parts, hidden)
<1> DEFINE V == {i \in DOMAIN content :
                   \/ content[i].kind \in {"image", "audio"}
                   \/ content[i].kind \notin ReasoningKinds /\ content[i].text = "words"}
           U == {i \in DOMAIN parts :
                   /\ parts[i].type \notin hidden
                   /\ parts[i].type \in {"image", "audio"} \/ parts[i].text = "words"}
<1>1. U = V
  BY DEF Mirrors
<1>2. U \in SUBSET (1..n) /\ IsFiniteSet(U) /\ U \in SUBSET Nat /\ Cardinality(U) \in Nat
  <2>1. U \in SUBSET (1..n) /\ U \in SUBSET Nat
    OBVIOUS
  <2>2. IsFiniteSet(1..n)
    BY NumbersTo
  <2> HIDE DEF U
  <2>3. QED
    BY <2>1, <2>2, SubsetSizes
<1> DEFINE m == Cardinality(U)
<1> HIDE DEF U, V
<1>3. PICK f \in [1..m -> U] : Enumerates(f, m, U)
  BY <1>2, EnumerationExists
<1>4. At(content, U) = Named(content, f, m) /\ At(parts, U) = Named(parts, f, m)
  BY <1>2, <1>3, AtEnumerated
<1> DEFINE a == At(content, U)
           b == At(parts, U)
           Block1(c) == IF c.kind \in {"image", "audio"} THEN c.kind ELSE "words"
           Part1(p) == IF p.type \in {"image", "audio"} THEN p.type ELSE "words"
<1>5. VisibleParts(content) = [i \in DOMAIN a |-> Block1(a[i])]
  BY <1>1 DEF VisibleParts, V
<1>6. Shown(parts, hidden) = [i \in DOMAIN b |-> Part1(b[i])]
  BY DEF Shown, U
<1>7. DOMAIN a = 1..m /\ DOMAIN b = 1..m /\ \A i \in 1..m : a[i] = content[f[i]] /\ b[i] = parts[f[i]]
  BY <1>4 DEF Named
<1> HIDE DEF a, b
<1>8. \A i \in 1..m : Block1(a[i]) = Part1(b[i])
  <2>1. \A i \in 1..m : f[i] \in DOMAIN parts
    BY <1>2, <1>3
  <2>2. \A j \in DOMAIN parts : Block1(content[j]) = Part1(parts[j])
    BY DEF Mirrors
  <2>3. QED
    BY <1>7, <2>1, <2>2
<1> HIDE DEF Block1, Part1
<1>9. QED
  BY <1>5, <1>6, <1>7, <1>8

\* Parts that were taken away before need not be hidden.
Kept(parts, removed) == {i \in DOMAIN parts : parts[i].type \notin removed}

LEMMA ShownOfKept ==
  ASSUME NEW n \in Nat, NEW parts, DOMAIN parts = 1..n, NEW hidden, NEW removed,
         removed \cap {"image", "audio"} = {}
  PROVE  Shown(At(parts, Kept(parts, removed)), hidden) = Shown(parts, removed \cup hidden)
<1> DEFINE P == {i \in DOMAIN parts : parts[i].type \notin removed}
           kept == At(parts, P)
           Seen(p, hide) == p.type \notin hide /\ (p.type \in {"image", "audio"} \/ p.text = "words")
           U == {i \in DOMAIN parts : Seen(parts[i], removed \cup hidden)}
           W == {i \in DOMAIN kept : Seen(kept[i], hidden)}
           m == Cardinality(P)
<1>1. P \in SUBSET (1..n) /\ IsFiniteSet(P) /\ P \in SUBSET Nat /\ Cardinality(P) \in Nat
  <2>1. P \in SUBSET (1..n) /\ P \in SUBSET Nat
    OBVIOUS
  <2>2. IsFiniteSet(1..n)
    BY NumbersTo
  <2> HIDE DEF P
  <2>3. QED
    BY <2>1, <2>2, SubsetSizes
<1>2. PICK f \in [1..m -> P] : Enumerates(f, m, P)
  BY <1>1, EnumerationExists
<1>3. kept = Named(parts, f, m)
  BY <1>1, <1>2, AtEnumerated
<1>4. DOMAIN kept = 1..m /\ \A i \in 1..m : kept[i] = parts[f[i]]
  BY <1>3 DEF Named
<1>5. \A j \in P : Seen(parts[j], hidden) <=> Seen(parts[j], removed \cup hidden)
  OBVIOUS
<1>6. \A j \in DOMAIN parts : Seen(parts[j], removed \cup hidden) => j \in P
  OBVIOUS
<1> HIDE DEF kept, Seen, P
<1>7. U = {f[i] : i \in W}
  <2>1. P = {f[i] : i \in 1..m}
    BY <1>2 DEF Enumerates
  <2>2. \A j \in P : j \in DOMAIN parts
    BY <1>1
  <2>3. ASSUME NEW j \in U PROVE j \in {f[i] : i \in W}
    <3>1. j \in P /\ Seen(parts[j], hidden)
      BY <1>5, <1>6
    <3>2. PICK i \in 1..m : j = f[i]
      BY <2>1, <3>1
    <3>3. i \in W
      BY <1>4, <3>1, <3>2
    <3>4. QED
      BY <3>2, <3>3
  <2>4. ASSUME NEW i \in W PROVE f[i] \in U
    <3>1. i \in 1..m /\ f[i] \in P /\ Seen(parts[f[i]], hidden)
      BY <1>2, <1>4
    <3>2. QED
      BY <1>5, <2>2, <3>1
  <2> HIDE DEF U, W
  <2>5. QED
    BY <2>3, <2>4
<1>8. At(kept, W) = At(parts, U)
  <2>1. W \in SUBSET (1..m)
    BY <1>4
  <2> HIDE DEF U, W
  <2>2. QED
    BY <1>1, <1>2, <1>7, <2>1, AtOfAt DEF kept
<1> DEFINE Part1(p) == IF p.type \in {"image", "audio"} THEN p.type ELSE "words"
<1>9. Shown(kept, hidden) = [i \in DOMAIN At(kept, W) |-> Part1(At(kept, W)[i])]
  BY DEF Shown, Seen
<1>10. Shown(parts, removed \cup hidden) = [i \in DOMAIN At(parts, U) |-> Part1(At(parts, U)[i])]
  BY DEF Shown, Seen
<1>11. QED
  BY <1>8, <1>9, <1>10 DEF kept, P, Kept

\* What is shown is words and placeholders.
LEMMA ShownType ==
  ASSUME NEW n \in Nat, NEW parts, DOMAIN parts = 1..n, NEW hidden
  PROVE  Shown(parts, hidden) \in Seq(Markers)
<1> DEFINE U == {i \in DOMAIN parts :
                   /\ parts[i].type \notin hidden
                   /\ parts[i].type \in {"image", "audio"} \/ parts[i].text = "words"}
           b == At(parts, U)
           Part1(p) == IF p.type \in {"image", "audio"} THEN p.type ELSE "words"
<1>1. Cardinality(U) \in Nat
  <2>1. U \in SUBSET (1..n)
    OBVIOUS
  <2>2. IsFiniteSet(1..n)
    BY NumbersTo
  <2> HIDE DEF U
  <2>3. QED
    BY <2>1, <2>2, SubsetSizes
<1> HIDE DEF U
<1>2. DOMAIN b = 1..Cardinality(U)
  BY DEF At
<1>3. Shown(parts, hidden) = [i \in DOMAIN b |-> Part1(b[i])]
  BY DEF Shown, U
<1> HIDE DEF b
<1>4. \A i \in DOMAIN b : Part1(b[i]) \in Markers
  BY DEF Markers
<1> HIDE DEF Part1
<1>5. QED
  BY <1>1, <1>2, <1>3, <1>4

(***************************************************************************)
(* Claude Code's records.                                                  *)
(***************************************************************************)

\* What is selected of a sequence is a sequence of its elements.
LEMMA Selected ==
  ASSUME NEW n \in Nat, NEW parts, DOMAIN parts = 1..n, NEW P \in SUBSET (1..n)
  PROVE  /\ Cardinality(P) \in Nat /\ DOMAIN At(parts, P) = 1..Cardinality(P)
         /\ \A i \in 1..Cardinality(P) : \E p \in P : At(parts, P)[i] = parts[p]
<1>1. IsFiniteSet(P) /\ P \in SUBSET Nat /\ Cardinality(P) \in Nat
  <2>1. P \in SUBSET Nat
    OBVIOUS
  <2>2. IsFiniteSet(1..n)
    BY NumbersTo
  <2>3. QED
    BY <2>1, <2>2, SubsetSizes
<1>2. PICK f \in [1..Cardinality(P) -> P] : Enumerates(f, Cardinality(P), P)
  BY <1>1, EnumerationExists
<1>3. At(parts, P) = Named(parts, f, Cardinality(P))
  BY <1>1, <1>2, AtEnumerated
<1>4. QED
  BY <1>1, <1>2, <1>3 DEF Named

\* An event followed by events that are no messages.
LEMMA FollowedBySilence ==
  ASSUME NEW first, NEW k \in Nat, NEW S, NEW children \in [1..k -> S], \A i \in 1..k : ~Usable(children[i])
  PROVE  /\ UsageEvents(children) = <<>>
         /\ UsageEvents(<<first>> \o children) = Told(first)
<1>1. UsageEvents(children) = <<>>
  <2>1. FirstOnly(children, k)
    BY DEF FirstOnly
  <2>2. k # 0 => Told(children[1]) = <<>>
    BY DEF Told
  <2>3. QED
    BY <2>1, <2>2, FirstIsTold
<1>2. UsageEvents(<<first>> \o children) = Told(first)
  <2> DEFINE all == <<first>> \o children
  <2>1. DOMAIN all = 1..(k + 1) /\ all[1] = first /\ \A i \in 2..(k + 1) : all[i] = children[i - 1]
    <3>1. children \in Seq(S) /\ Len(children) = k
      OBVIOUS
    <3>2. QED
      BY <3>1
  <2> HIDE DEF all
  <2>2. FirstOnly(all, k + 1)
    <3>1. \A i \in 1..(k + 1) : i # 1 => i \in 2..(k + 1) /\ i - 1 \in 1..k
      OBVIOUS
    <3>2. QED
      BY <2>1, <3>1 DEF FirstOnly
  <2>3. k + 1 \in Nat /\ k + 1 # 0
    OBVIOUS
  <2>4. UsageEvents(all) = Told(all[1])
    BY <2>2, <2>3, FirstIsTold
  <2>5. QED
    BY <2>1, <2>4 DEF all
<1>3. QED
  BY <1>1, <1>2

\* A message of its own type and role, with something to show.
LEMMA ToldMessage ==
  ASSUME NEW name, NEW pos, NEW content, NEW type, NEW role, role = RoleOf(name), type = MessageType(role)
  PROVE  Told(Event(type, role, pos, content)) = Says(name, pos, VisibleParts(content))
BY DEF Told, Usable, Event, Says, RoleOf, MessageType

LEMMA ToldSilent ==
  ASSUME NEW event, event.type \notin {"user_message", "assistant_message"}
  PROVE  Told(event) = <<>> /\ ~Usable(event)
BY DEF Told, Usable

\* The same operator, by way of an instance.
LEMMA ClaudeAt == ASSUME NEW s, NEW P PROVE Claude!At(s, P) = At(s, P)
BY Zenon DEF Claude!At, At, Claude!Cardinality, Cardinality

\* The events of a message's visible and structured parts.
ClaudePlaces(parts, structured) ==
  {i \in DOMAIN parts : IF structured THEN parts[i].type \in Claude!Structured ELSE parts[i].type \notin Claude!Structured}

ClaudeChildren(own, structured) == [i \in DOMAIN structured |-> Claude!StructuredEvent(own, structured[i])]

ClaudeBlocks(visible) == [i \in DOMAIN visible |-> Claude!PartBlock(visible[i])]

LEMMA ClaudeSplits ==
  ASSUME NEW own, NEW parts
  PROVE  LET visible == At(parts, ClaudePlaces(parts, FALSE))
             structured == At(parts, ClaudePlaces(parts, TRUE))
         IN  Claude!SplitParts(own, parts) =
               IF visible = <<>> /\ structured # <<>> THEN ClaudeChildren(own, structured)
               ELSE <<[own EXCEPT !.content = ClaudeBlocks(visible)]>> \o ClaudeChildren(own, structured)
<1>1. ClaudePlaces(parts, FALSE) = {i \in DOMAIN parts : parts[i].type \notin Claude!Structured}
      /\ ClaudePlaces(parts, TRUE) = {i \in DOMAIN parts : parts[i].type \in Claude!Structured}
  BY DEF ClaudePlaces
<1> DEFINE V == {i \in DOMAIN parts : parts[i].type \notin Claude!Structured}
           T == {i \in DOMAIN parts : parts[i].type \in Claude!Structured}
           visible == Claude!At(parts, V)
           structured == Claude!At(parts, T)
<1>2. Claude!SplitParts(own, parts) =
               IF visible = <<>> /\ structured # <<>> THEN ClaudeChildren(own, structured)
               ELSE <<[own EXCEPT !.content = ClaudeBlocks(visible)]>> \o ClaudeChildren(own, structured)
  BY Zenon DEF Claude!SplitParts, ClaudeChildren, ClaudeBlocks
<1>3. visible = At(parts, V) /\ structured = At(parts, T)
  BY ClaudeAt
<1> HIDE DEF V, T, visible, structured
<1>4. QED
  BY <1>1, <1>2, <1>3 DEF V, T

LEMMA ShownNone == ASSUME NEW hidden PROVE Shown(<<>>, hidden) = <<>>
<1> DEFINE U == {i \in DOMAIN <<>> :
                   /\ <<>>[i].type \notin hidden
                   /\ <<>>[i].type \in {"image", "audio"} \/ <<>>[i].text = "words"}
<1>1. U = {}
  OBVIOUS
<1>2. At(<<>>, {}) = <<>>
  BY AtOne
<1>3. QED
  BY <1>1, <1>2 DEF Shown

LEMMA ClaudeChild ==
  ASSUME NEW type, NEW role, NEW line, NEW content, NEW part
  PROVE  Claude!StructuredEvent(Event(type, role, line, content), part).type
           \in {"tool_call", "tool_result", "metadata"}
BY DEF Claude!StructuredEvent, Claude!ChildEvent, Event

LEMMA ClaudeSplit ==
  ASSUME NEW n \in Nat, NEW parts, DOMAIN parts = 1..n, NEW name, NEW line, NEW content
  PROVE  LET role == RoleOf(name)
             events == Claude!SplitParts(Event(MessageType(role), role, line, content), parts)
         IN  /\ UsageEvents(events) = Says(name, line, Shown(parts, Claude!Structured \cup Thoughts))
             /\ events # Claude!MapError
<1> DEFINE role == RoleOf(name)
           type == MessageType(role)
           own == Event(type, role, line, content)
           V == ClaudePlaces(parts, FALSE)
           T == ClaudePlaces(parts, TRUE)
           visible == At(parts, V)
           structured == At(parts, T)
           children == ClaudeChildren(own, structured)
           blocks == ClaudeBlocks(visible)
           first == [own EXCEPT !.content = blocks]
           events == Claude!SplitParts(own, parts)
           k == Cardinality(T)
<1>1. events = IF visible = <<>> /\ structured # <<>> THEN children ELSE <<first>> \o children
  BY ClaudeSplits
<1>2. DOMAIN visible = 1..Cardinality(V) /\ Cardinality(V) \in Nat /\ DOMAIN structured = 1..k /\ k \in Nat
      /\ \A i \in 1..k : \E p \in T : structured[i] = parts[p]
  <2>1. V \in SUBSET (1..n) /\ T \in SUBSET (1..n)
    BY DEF ClaudePlaces
  <2> HIDE DEF V, T
  <2>2. QED
    BY <2>1, Selected
<1>3. first = Event(type, role, line, blocks)
  <2> HIDE DEF blocks, type, role
  <2>1. QED
    BY DEF Event
<1>4. Shown(visible, Thoughts) = Shown(parts, Claude!Structured \cup Thoughts)
  <2>1. Claude!Structured \cap {"image", "audio"} = {}
    BY DEF Claude!Structured
  <2>2. V = Kept(parts, Claude!Structured)
    BY DEF ClaudePlaces, Kept
  <2>3. Shown(At(parts, Kept(parts, Claude!Structured)), Thoughts)
          = Shown(parts, Claude!Structured \cup Thoughts)
    BY <2>1, ShownOfKept
  <2> HIDE DEF V
  <2>4. QED
    BY <2>2, <2>3
<1> HIDE DEF V, T, visible, structured
<1>5. VisibleParts(blocks) = Shown(visible, Thoughts)
  <2>1. Mirrors(blocks, visible, Thoughts)
    <3>1. DOMAIN blocks = DOMAIN visible
      BY DEF ClaudeBlocks
    <3>2. ASSUME NEW i \in DOMAIN visible
          PROVE  /\ blocks[i].text = visible[i].text
                 /\ blocks[i].kind = IF visible[i].type \in Claude!BlockKinds THEN visible[i].type ELSE "document"
      BY DEF Claude!PartBlock, Claude!Block, ClaudeBlocks
    <3> HIDE DEF blocks
    <3>3. QED
      BY <3>1, <3>2 DEF Mirrors, Claude!BlockKinds, Claude!ReasoningKinds, ReasoningKinds, Thoughts
  <2>2. Thoughts \cap {"image", "audio"} = {}
    BY DEF Thoughts
  <2> HIDE DEF blocks
  <2>3. QED
    BY <1>2, <2>1, <2>2, Visible
<1>6. ASSUME NEW i \in 1..k PROVE ~Usable(children[i])
  <2>1. children[i] = Claude!StructuredEvent(own, structured[i])
    BY <1>2 DEF ClaudeChildren
  <2>2. children[i].type \in {"tool_call", "tool_result", "metadata"}
    BY <2>1, ClaudeChild
  <2> HIDE DEF children
  <2>3. QED
    BY <2>2, ToldSilent
<1>7. \E S : children \in [1..k -> S]
  <2>1. children \in [1..k -> {children[i] : i \in 1..k}]
    BY <1>2 DEF ClaudeChildren
  <2>2. QED
    BY <2>1
<1> HIDE DEF children, first, blocks
<1>8. UsageEvents(children) = <<>> /\ UsageEvents(<<first>> \o children) = Told(first)
  BY <1>2, <1>6, <1>7, FollowedBySilence
<1>9. Told(first) = Says(name, line, Shown(parts, Claude!Structured \cup Thoughts))
  BY <1>3, <1>4, <1>5, ToldMessage
<1>10. CASE visible = <<>> /\ structured # <<>>
  <2>1. Shown(visible, Thoughts) = <<>>
    BY <1>10, ShownNone
  <2>2. Says(name, line, <<>>) = <<>>
    BY DEF Says
  <2>3. events # <<>>
    BY <1>1, <1>2, <1>7, <1>10
  <2>4. QED
    BY <1>1, <1>4, <1>8, <1>10, <2>1, <2>2, <2>3 DEF Claude!MapError
<1>11. CASE ~(visible = <<>> /\ structured # <<>>)
  <2>1. events = <<first>> \o children
    BY <1>1, <1>11
  <2>2. <<first>> \o children # <<>>
    <3>1. PICK S : children \in [1..k -> S]
      BY <1>7
    <3>2. children \in Seq(S) /\ Len(<<first>> \o children) = 1 + Len(children) /\ Len(children) \in Nat
      BY <1>2, <3>1
    <3>3. QED
      BY <3>2
  <2>3. QED
    BY <1>8, <1>9, <2>1, <2>2 DEF Claude!MapError
<1>12. QED
  BY <1>10, <1>11

\* One event alone.
LEMMA OneEvent == ASSUME NEW event PROVE UsageEvents(<<event>>) = Told(event)
<1>1. FirstOnly(<<event>>, 1)
  BY DEF FirstOnly
<1>2. <<event>>[1] = event /\ 1 \in Nat /\ 1 # 0
  OBVIOUS
<1>3. UsageEvents(<<event>>) = Told(<<event>>[1])
  BY <1>1, <1>2, FirstIsTold
<1>4. QED
  BY <1>2, <1>3

\* The native record, as data, shows nothing.
LEMMA RawShowsNothing == VisibleParts(RawBlocks) = <<>>
<1> DEFINE W == {i \in DOMAIN RawBlocks : \/ RawBlocks[i].kind \in {"image", "audio"}
                                          \/ RawBlocks[i].kind \notin ReasoningKinds /\ RawBlocks[i].text = "words"}
           shown == At(RawBlocks, W)
<1>1. W = {}
  BY DEF RawBlocks, Block
<1>2. VisibleParts(RawBlocks)
        = [i \in DOMAIN shown |-> IF shown[i].kind \in {"image", "audio"} THEN shown[i].kind ELSE "words"]
  BY DEF VisibleParts
<1>3. shown = <<>>
  BY <1>1, AtOne
<1> HIDE DEF shown
<1>4. QED
  BY <1>2, <1>3

LEMMA RawIsSilent == ASSUME NEW type, NEW role, NEW pos PROVE Told(Event(type, role, pos, RawBlocks)) = <<>>
BY RawShowsNothing DEF Told, Usable, Event

\* The operators of the events, by way of the instance.
LEMMA ClaudeEvent ==
  /\ \A type, role, pos, content : Claude!Event(type, role, pos, content) = Event(type, role, pos, content)
  /\ \A name : Claude!RoleOf(name) = RoleOf(name) /\ Claude!MessageType(name) = MessageType(name)
  /\ Claude!RawBlocks = RawBlocks
BY Zenon DEF Claude!Event, Event, Claude!RoleOf, RoleOf, Claude!MessageType, MessageType, Claude!RawBlocks,
   RawBlocks, Claude!Block, Block

ClaudeFails(record) ==
  \/ record.type = ""
  \/ /\ record.type \in {"user", "assistant", "system"} /\ record.subtype # "compact_boundary"
     /\ record.form = "invalid"

LEMMA ClaudeMessageTold ==
  ASSUME NEW record, Claude!IsRecord(record), NEW line
  PROVE  LET base == Event("metadata", "harness", line, RawBlocks)
             events == Claude!MapMessageRecord(base, record)
         IN  /\ UsageEvents(events) =
                  IF record.form \in {"string", "parts"}
                  THEN Says(IF record.role = "" THEN record.type ELSE record.role, line,
                            Shown(record.parts, Claude!Structured \cup Thoughts))
                  ELSE <<>>
             /\ events = Claude!MapError <=> record.form = "invalid"
<1> DEFINE base == Event("metadata", "harness", line, RawBlocks)
           name == IF record.role = "" THEN record.type ELSE record.role
           role == RoleOf(name)
           own == [base EXCEPT !.role = role, !.type = MessageType(role)]
           events == Claude!MapMessageRecord(base, record)
           n == Len(record.parts)
<1>1. own = Event(MessageType(role), role, line, RawBlocks)
  <2> DEFINE changed == [base EXCEPT !.role = role]
  <2> HIDE DEF role
  <2>1. changed = Event("metadata", role, line, RawBlocks)
    BY DEF Event
  <2>2. own = [changed EXCEPT !.type = MessageType(role)]
    OBVIOUS
  <2> HIDE DEF changed
  <2>3. [changed EXCEPT !.type = MessageType(role)] = Event(MessageType(role), role, line, RawBlocks)
    BY <2>1 DEF Event
  <2>4. QED
    BY <2>2, <2>3
<1>2. events = CASE record.form = "invalid" -> Claude!MapError
                 [] record.form = "absent"  -> <<base>>
                 [] record.form = "object"  -> <<own>>
                 [] record.form \in {"null", "string", "parts"} -> Claude!SplitParts(own, record.parts)
  BY ClaudeEvent, Zenon DEF Claude!MapMessageRecord
<1>3. record.form \in {"absent", "invalid", "null", "string", "parts", "object"}
  BY DEF Claude!IsRecord
<1>4. n \in Nat /\ DOMAIN record.parts = 1..n
  <2>1. record.parts \in Seq(Claude!Parts)
    BY DEF Claude!IsRecord
  <2>2. QED
    BY <2>1
<1>5. record.form = "null" => Shown(record.parts, Claude!Structured \cup Thoughts) = <<>>
  <2>1. record.form = "null" => record.parts = <<>>
    BY DEF Claude!IsRecord
  <2>2. QED
    BY <2>1, ShownNone
<1> HIDE DEF own, base, events, role, n
<1>6. CASE record.form = "invalid"
  <2>1. events = Claude!MapError
    BY <1>2, <1>6
  <2>2. UsageEvents(<<>>) = <<>>
    <3>1. FirstOnly(<<>>, 0)
      BY DEF FirstOnly
    <3>2. QED
      BY <3>1, FirstIsTold
  <2>3. QED
    BY <1>6, <2>1, <2>2 DEF Claude!MapError, events, base
<1>7. CASE record.form = "absent"
  <2>1. events = <<base>>
    BY <1>2, <1>7
  <2>2. UsageEvents(events) = <<>>
    BY <2>1, OneEvent, RawIsSilent DEF base
  <2>3. QED
    BY <1>7, <2>1, <2>2 DEF Claude!MapError, events, base
<1>8. CASE record.form = "object"
  <2>1. events = <<own>>
    BY <1>2, <1>8
  <2>2. UsageEvents(events) = <<>>
    BY <1>1, <2>1, OneEvent, RawIsSilent
  <2>3. QED
    BY <1>8, <2>1, <2>2 DEF Claude!MapError, events, base
<1>9. CASE record.form \in {"null", "string", "parts"}
  <2>1. events = Claude!SplitParts(own, record.parts)
    BY <1>2, <1>9
  <2>2. /\ UsageEvents(events) = Says(name, line, Shown(record.parts, Claude!Structured \cup Thoughts))
        /\ events # Claude!MapError
    BY <1>1, <1>4, <2>1, ClaudeSplit DEF role
  <2>3. record.form = "null" => UsageEvents(events) = <<>>
    BY <1>5, <2>2 DEF Says
  <2>4. QED
    BY <1>9, <2>2, <2>3 DEF events, base
<1>10. QED
  BY <1>3, <1>6, <1>7, <1>8, <1>9 DEF events, base

\* What a record of Claude Code shows is what it says.
LEMMA ClaudeTold ==
  ASSUME NEW record, Claude!IsRecord(record), NEW line
  PROVE  /\ UsageEvents(Claude!MapNativeRecord(record, line)) = ClaudeSays(record, line)
         /\ Claude!MapNativeRecord(record, line) = Claude!MapError <=> ClaudeFails(record)
<1> DEFINE base == Event("metadata", "harness", line, RawBlocks)
           boundary == record.subtype = "compact_boundary"
           events == Claude!MapNativeRecord(record, line)
           later == IF boundary \/ record.type = "compact" THEN "compaction" ELSE "unknown"
<1>1. events =
        CASE record.type = "" -> Claude!MapError
          [] record.type \in {"user", "assistant", "system"} ->
               IF boundary THEN <<[base EXCEPT !.type = "compaction"]>> ELSE Claude!MapMessageRecord(base, record)
          [] record.type = "summary" -> <<[base EXCEPT !.type = "compaction"]>>
          [] record.type = "developer" -> <<[base EXCEPT !.type = "developer_message", !.role = "developer"]>>
          [] record.type \in {"compact", "other"} -> <<[base EXCEPT !.type = later]>>
  BY ClaudeEvent, Zenon DEF Claude!MapNativeRecord
<1>2. record.type \in {"", "user", "assistant", "system", "summary", "developer", "compact", "other"}
  BY DEF Claude!IsRecord
<1>3. [base EXCEPT !.type = "compaction"] = Event("compaction", "harness", line, RawBlocks)
      /\ [base EXCEPT !.type = later] = Event(later, "harness", line, RawBlocks)
  <2> HIDE DEF later
  <2>1. QED
    BY DEF Event
<1> DEFINE typed == [base EXCEPT !.type = "developer_message"]
           developed == [base EXCEPT !.type = "developer_message", !.role = "developer"]
<1>3a. developed = Event("developer_message", "developer", line, RawBlocks)
  <2>1. typed = Event("developer_message", "harness", line, RawBlocks)
    BY DEF Event
  <2>2. developed = [typed EXCEPT !.role = "developer"]
    OBVIOUS
  <2> HIDE DEF typed
  <2>3. [typed EXCEPT !.role = "developer"] = Event("developer_message", "developer", line, RawBlocks)
    BY <2>1 DEF Event
  <2>4. QED
    BY <2>2, <2>3
<1>4. CASE record.type \in {"user", "assistant", "system"} /\ ~boundary
  <2>1. events = Claude!MapMessageRecord(base, record)
    BY <1>1, <1>4, Zenon
  <2>2. QED
    BY <1>4, <2>1, ClaudeMessageTold DEF ClaudeSays, ClaudeFails
<1>5. CASE record.type = ""
  <2>1. events = <<>>
    BY <1>1, <1>5 DEF Claude!MapError
  <2>2. UsageEvents(<<>>) = <<>>
    <3>1. FirstOnly(<<>>, 0)
      BY DEF FirstOnly
    <3>2. QED
      BY <3>1, FirstIsTold
  <2>3. QED
    BY <1>5, <2>1, <2>2 DEF ClaudeSays, ClaudeFails, Claude!MapError
<1>6. CASE record.type # "" /\ ~(record.type \in {"user", "assistant", "system"} /\ ~boundary)
  <2>1. \E type, role : events = <<Event(type, role, line, RawBlocks)>>
    <3> HIDE DEF events, later, boundary
    <3>1. CASE record.type \in {"user", "assistant", "system"} \/ record.type = "summary"
      <4>1. events = <<[base EXCEPT !.type = "compaction"]>>
        BY <1>1, <1>6, <3>1
      <4>2. QED
        BY <1>3, <4>1
    <3>2. CASE record.type = "developer"
      <4>1. events = <<developed>>
        BY <1>1, <3>2
      <4> HIDE DEF developed
      <4>2. QED
        BY <1>3a, <4>1
    <3>3. CASE record.type \in {"compact", "other"}
      <4>1. events = <<[base EXCEPT !.type = later]>>
        BY <1>1, <3>3
      <4>2. QED
        BY <1>3, <4>1
    <3>4. QED
      BY <1>2, <1>6, <3>1, <3>2, <3>3
  <2>2. PICK type, role : events = <<Event(type, role, line, RawBlocks)>>
    BY <2>1
  <2> HIDE DEF events
  <2>3. UsageEvents(events) = <<>>
    BY <2>2, OneEvent, RawIsSilent
  <2>4. events # Claude!MapError
    BY <2>2 DEF Claude!MapError
  <2>5. QED
    BY <1>6, <2>3, <2>4 DEF ClaudeSays, ClaudeFails, events
<1>7. QED
  BY <1>4, <1>5, <1>6

(***************************************************************************)
(* Codex's records.                                                        *)
(***************************************************************************)

LEMMA CodexOperators ==
  /\ \A type, role, pos, content : Codex!Event(type, role, pos, content) = Event(type, role, pos, content)
  /\ \A name : Codex!RoleOf(name) = RoleOf(name) /\ Codex!MessageType(name) = MessageType(name)
  /\ Codex!RawBlocks = RawBlocks
BY Zenon DEF Codex!Event, Event, Codex!RoleOf, RoleOf, Codex!MessageType, MessageType, Codex!RawBlocks,
   RawBlocks, Codex!Block, Block

\* The blocks of a Codex message show what its parts say.
LEMMA CodexVisible ==
  ASSUME NEW n \in Nat, NEW parts, DOMAIN parts = 1..n
  PROVE  VisibleParts(Codex!ParseContent(parts)) = Shown(parts, Thoughts)
<1> DEFINE content == Codex!ParseContent(parts)
<1>1. DOMAIN content = DOMAIN parts
  BY DEF Codex!ParseContent
<1>2. ASSUME NEW i \in DOMAIN parts
      PROVE  /\ content[i].text = parts[i].text
             /\ content[i].kind = IF parts[i].type \in Codex!BlockKinds THEN parts[i].type ELSE "text"
  BY DEF Codex!ParseContent, Codex!Block
<1> HIDE DEF content
<1>3. Mirrors(content, parts, Thoughts)
  BY <1>1, <1>2 DEF Mirrors, Codex!BlockKinds, Codex!ReasoningKinds, ReasoningKinds, Thoughts
<1>4. Thoughts \cap {"image", "audio"} = {}
  BY DEF Thoughts
<1>5. VisibleParts(content) = Shown(parts, Thoughts)
  BY <1>3, <1>4, Visible
<1>6. QED
  BY <1>5 DEF content

\* Whoever is named: a tool, and a role nobody knows, tell nothing.
LEMMA CodexMessageTold ==
  ASSUME NEW name, NEW event, event.role = Codex!Role(name), event.type = MessageType(event.role),
         event.content = event.content
  PROVE  Told(event) = Says(name, event.pos, VisibleParts(event.content))
BY CodexOperators DEF Told, Usable, Says, Codex!Role, RoleOf, MessageType

CodexFails(record) ==
  \/ record.type = ""
  \/ ~record.valid /\ record.type \in {"session_meta", "turn_context", "response_item", "event_msg"}

\* The fields of an event with its call.
LEMMA CodexFields ==
  ASSUME NEW event, NEW call
  PROVE  LET e == Codex!CallEvent(event, call)
         IN e.type = event.type /\ e.role = event.role /\ e.pos = event.pos /\ e.content = event.content
BY DEF Codex!CallEvent

LEMMA CodexItemTold ==
  ASSUME NEW record, Codex!IsRecord(record), record.type = "response_item", NEW line
  PROVE  LET base == Event("metadata", "harness", line, RawBlocks)
             event == Codex!MapResponseItem(base, record)
         IN  /\ Told(event) = IF record.item \in {"message", "agent_message"}
                              THEN Says(IF record.item = "message" THEN record.role ELSE "assistant", line,
                                        Shown(record.parts, Thoughts))
                              ELSE <<>>
             /\ event.type # "map_error"
             /\ event.type = "tool_result" => record.item = "function_call_output"
<1> DEFINE base == Event("metadata", "harness", line, RawBlocks)
           event == Codex!MapResponseItem(base, record)
           n == Len(record.parts)
           content == Codex!ParseContent(record.parts)
           shown == Shown(record.parts, Thoughts)
           role == Codex!Role(record.role)
           called == IF record.shell THEN "command" ELSE "tool_call"
<1>1. n \in Nat /\ DOMAIN record.parts = 1..n
  <2>1. record.parts \in Seq(Codex!Parts)
    BY DEF Codex!IsRecord
  <2>2. QED
    BY <2>1
<1>2. VisibleParts(content) = shown
  BY <1>1, CodexVisible
<1>3. record.item \in {"message", "agent_message", "reasoning", "function_call", "function_call_output", "other"}
  BY DEF Codex!IsRecord
<1>4. CASE record.item = "message"
  <2> DEFINE said == [base EXCEPT !.role = role, !.type = MessageType(role), !.content = content]
  <2>1. event = Codex!CallEvent(said, NoCall)
    BY <1>4, CodexOperators, Zenon DEF Codex!MapResponseItem
  <2> HIDE DEF role, content
  <2>2. said.role = role /\ said.type = MessageType(role) /\ said.content = content /\ said.pos = line
    BY DEF Event
  <2> HIDE DEF said, event
  <2>3. event.role = role /\ event.type = MessageType(role) /\ event.content = content /\ event.pos = line
    BY <2>1, <2>2, CodexFields
  <2>4. Told(event) = Says(record.role, line, shown)
    BY <1>2, <2>3, CodexMessageTold DEF role
  <2>5. event.type \notin {"map_error", "tool_result"}
    BY <2>3 DEF MessageType
  <2>6. QED
    BY <1>4, <2>4, <2>5 DEF event
<1>5. CASE record.item = "agent_message"
  <2> DEFINE said == [base EXCEPT !.role = "assistant", !.type = "assistant_message", !.content = content]
  <2>1. event = Codex!CallEvent(said, NoCall)
    BY <1>5, CodexOperators DEF Codex!MapResponseItem
  <2> HIDE DEF content
  <2>2. said.role = "assistant" /\ said.type = "assistant_message" /\ said.content = content /\ said.pos = line
    BY DEF Event
  <2> HIDE DEF said, event
  <2>3. event.role = "assistant" /\ event.type = "assistant_message" /\ event.content = content /\ event.pos = line
    BY <2>1, <2>2, CodexFields
  <2>4. Told(event) = Says("assistant", line, shown)
    BY <1>2, <2>3 DEF Told, Says, Usable
  <2>5. QED
    BY <1>5, <2>3, <2>4 DEF event
<1>6. CASE record.item = "reasoning"
  <2> DEFINE thought == [base EXCEPT !.role = "assistant", !.content = content]
  <2>1. event = Codex!CallEvent(thought, NoCall)
    BY <1>6, CodexOperators DEF Codex!MapResponseItem
  <2> HIDE DEF content
  <2>2. thought.type = "metadata"
    BY DEF Event
  <2> HIDE DEF thought, event
  <2>3. event.type = "metadata"
    BY <2>1, <2>2, CodexFields
  <2>4. QED
    BY <1>6, <2>3, ToldSilent DEF event
<1>7. CASE record.item = "function_call"
  <2> DEFINE call == [base EXCEPT !.role = "assistant", !.content = <<>>, !.type = called]
  <2>1. event = Codex!CallEvent(call, record.call)
    BY <1>7, CodexOperators DEF Codex!MapResponseItem
  <2>2. call.type = called
    <3> HIDE DEF called
    <3>1. QED
      BY DEF Event
  <2> HIDE DEF call, event
  <2>3. event.type = called
    BY <2>1, <2>2, CodexFields
  <2>4. event.type \in {"command", "tool_call"}
    BY <2>3
  <2>5. QED
    BY <1>7, <2>4, ToldSilent DEF event
<1>8. CASE record.item = "function_call_output"
  <2> DEFINE result == [base EXCEPT !.role = "tool", !.type = "tool_result", !.content = <<>>]
  <2>1. event = Codex!CallEvent(result, record.call)
    BY <1>8, CodexOperators DEF Codex!MapResponseItem
  <2>2. result.type = "tool_result"
    BY DEF Event
  <2> HIDE DEF result, event
  <2>3. event.type = "tool_result"
    BY <2>1, <2>2, CodexFields
  <2>4. QED
    BY <1>8, <2>3, ToldSilent DEF event
<1>9. CASE record.item = "other"
  <2> DEFINE other == [base EXCEPT !.type = "unknown"]
  <2>1. event = Codex!CallEvent(other, NoCall)
    BY <1>9, CodexOperators DEF Codex!MapResponseItem
  <2>2. other.type = "unknown"
    BY DEF Event
  <2> HIDE DEF other, event
  <2>3. event.type = "unknown"
    BY <2>1, <2>2, CodexFields
  <2>4. QED
    BY <1>9, <2>3, ToldSilent DEF event
<1> HIDE DEF event, shown, base
<1>10. QED
  BY <1>3, <1>4, <1>5, <1>6, <1>7, <1>8, <1>9 DEF event, shown, base

\* What a record of Codex shows is what it says, whatever commands are remembered.
LEMMA CodexTold ==
  ASSUME NEW record, Codex!IsRecord(record), NEW line, NEW commands
  PROVE  LET event == Codex!MapRecord(record, line)
         IN  /\ event = Codex!MapError <=> CodexFails(record)
             /\ CodexFails(record) => CodexSays(record, line) = <<>>
             /\ ~CodexFails(record) =>
                  UsageEvents(<<Codex!WithCommandResult(commands, event)>>) = CodexSays(record, line)
<1> DEFINE base == Event("metadata", "harness", line, RawBlocks)
           event == Codex!MapRecord(record, line)
           final == Codex!WithCommandResult(commands, event)
           copied == Codex!MapEventMessage(base, record)
           compacted == [base EXCEPT !.type = "compaction"]
           other == [base EXCEPT !.type = "unknown"]
<1>1. event =
        CASE record.type = "" -> Codex!MapError
          [] record.type \in {"session_meta", "turn_context"} ->
               IF record.valid THEN Codex!CallEvent(base, NoCall) ELSE Codex!MapError
          [] record.type = "response_item" ->
               IF record.valid THEN Codex!MapResponseItem(base, record) ELSE Codex!MapError
          [] record.type = "event_msg" ->
               IF record.valid THEN Codex!CallEvent(copied, NoCall) ELSE Codex!MapError
          [] record.type = "world_state" -> Codex!CallEvent(base, NoCall)
          [] record.type = "compacted" -> Codex!CallEvent(compacted, NoCall)
          [] record.type = "other" -> Codex!CallEvent(other, NoCall)
  BY CodexOperators, Zenon DEF Codex!MapRecord
<1>2. record.type \in {"", "session_meta", "turn_context", "response_item", "event_msg", "world_state",
                       "compacted", "other"} /\ record.valid \in BOOLEAN
  BY DEF Codex!IsRecord
<1>3. Codex!MapError.type = "map_error"
  BY DEF Codex!MapError
<1>4. ASSUME Told(event) = CodexSays(record, line), event.type # "map_error",
             event.type = "tool_result" => CodexSays(record, line) = <<>>
      PROVE  event # Codex!MapError /\ UsageEvents(<<final>>) = CodexSays(record, line)
  <2> HIDE DEF event
  <2>1. CASE event.type = "tool_result" /\ event.call \in commands
    <3>1. final = [event EXCEPT !.type = "command_result"]
      BY <2>1 DEF Codex!WithCommandResult
    <3>2. Told(final) = <<>>
      <4>1. final.type = "command_result" \/ final = event
        BY <3>1
      <4>2. final.type \notin {"user_message", "assistant_message"}
        BY <2>1, <4>1
      <4>3. QED
        BY <4>2, ToldSilent
    <3>3. QED
      BY <1>3, <1>4, <2>1, <3>2, OneEvent
  <2>2. CASE ~(event.type = "tool_result" /\ event.call \in commands)
    <3>1. final = event
      BY <2>2 DEF Codex!WithCommandResult
    <3>2. QED
      BY <1>3, <1>4, <3>1, OneEvent
  <2>3. QED
    BY <2>1, <2>2
<1>5. copied.type \in {"compaction", "file_change", "error", "metadata"} /\ base.type = "metadata"
      /\ compacted.type = "compaction" /\ other.type = "unknown"
  <2> DEFINE type == CASE record.item = "context_compacted" -> "compaction"
                       [] record.item = "patch_apply_end"   -> "file_change"
                       [] record.item = "turn_aborted"      -> "error"
                       [] OTHER                             -> "metadata"
  <2>1. copied = [base EXCEPT !.type = type]
    BY DEF Codex!MapEventMessage
  <2>2. type \in {"compaction", "file_change", "error", "metadata"}
    OBVIOUS
  <2> HIDE DEF type
  <2>3. QED
    BY <2>1, <2>2 DEF Event
<1>6. CASE CodexFails(record)
  <2>1. event = Codex!MapError
    BY <1>1, <1>2, <1>6 DEF CodexFails
  <2>2. QED
    BY <1>6, <2>1 DEF CodexFails, CodexSays
<1>7. CASE ~CodexFails(record) /\ record.type = "response_item"
  <2>1. event = Codex!MapResponseItem(base, record) /\ record.valid
    BY <1>1, <1>2, <1>7 DEF CodexFails
  <2>2. /\ Told(event) = CodexSays(record, line) /\ event.type # "map_error"
        /\ event.type = "tool_result" => CodexSays(record, line) = <<>>
    <3> HIDE DEF event
    <3>1. QED
      BY <1>7, <2>1, CodexItemTold DEF CodexSays
  <2>3. QED
    BY <1>4, <1>7, <2>2
<1>8. CASE ~CodexFails(record) /\ record.type # "response_item"
  <2>1. \E e \in {base, copied, compacted, other} : event = Codex!CallEvent(e, NoCall)
    BY <1>1, <1>2, <1>8 DEF CodexFails
  <2> HIDE DEF event, base, copied, compacted, other
  <2>2. event.type \in {"compaction", "file_change", "error", "metadata", "unknown"}
    BY <1>5, <2>1, CodexFields
  <2>3. Told(event) = <<>> /\ CodexSays(record, line) = <<>>
    BY <1>8, <2>2, ToldSilent DEF CodexSays
  <2>4. QED
    BY <1>4, <1>8, <2>2, <2>3 DEF event
<1>9. QED
  BY <1>6, <1>7, <1>8

(***************************************************************************)
(* Pi's entries.                                                           *)
(***************************************************************************)

LEMMA PiOperators ==
  /\ \A type, role, pos, content : Pi!Event(type, role, pos, content) = Event(type, role, pos, content)
  /\ Pi!RawBlocks = RawBlocks
  /\ \A s, P : Pi!At(s, P) = At(s, P)
BY Zenon DEF Pi!Event, Event, Pi!RawBlocks, RawBlocks, Pi!Block, Block, Pi!At, At, Pi!Cardinality, Cardinality

PiBlocks(parts) == [i \in DOMAIN parts |-> Pi!PartBlock(parts[i])]
PiCallTypes == {"toolCall", "bashCall"}

LEMMA PiVisible ==
  ASSUME NEW n \in Nat, NEW parts, DOMAIN parts = 1..n
  PROVE  VisibleParts(PiBlocks(parts)) = Shown(parts, Thoughts)
<1> DEFINE content == PiBlocks(parts)
<1>1. DOMAIN content = DOMAIN parts
  BY DEF PiBlocks
<1>2. ASSUME NEW i \in DOMAIN parts
      PROVE  /\ content[i].text = parts[i].text
             /\ content[i].kind = IF parts[i].type = "thinking" THEN "reasoning"
                                  ELSE IF parts[i].type \in Pi!BlockKinds THEN parts[i].type ELSE "document"
  <2>1. content[i] = Pi!PartBlock(parts[i])
    BY DEF PiBlocks
  <2> HIDE DEF content
  <2>2. CASE parts[i].type = "thinking"
    BY <2>1, <2>2 DEF Pi!PartBlock, Pi!Block
  <2>3. CASE parts[i].type # "thinking" /\ parts[i].type \in Pi!BlockKinds
    BY <2>1, <2>3 DEF Pi!PartBlock, Pi!Block
  <2>4. CASE parts[i].type # "thinking" /\ parts[i].type \notin Pi!BlockKinds
    BY <2>1, <2>4 DEF Pi!PartBlock, Pi!Block
  <2>5. QED
    BY <2>2, <2>3, <2>4
<1> HIDE DEF content
<1>3. Mirrors(content, parts, Thoughts)
  BY <1>1, <1>2 DEF Mirrors, Pi!BlockKinds, Pi!ReasoningKinds, ReasoningKinds, Thoughts
<1>4. Thoughts \cap {"image", "audio"} = {}
  BY DEF Thoughts
<1>5. VisibleParts(content) = Shown(parts, Thoughts)
  BY <1>3, <1>4, Visible
<1>6. QED
  BY <1>5 DEF content

\* What is not there need not be hidden.
LEMMA ShownSame ==
  ASSUME NEW parts, NEW hidden, NEW others, \A i \in DOMAIN parts : parts[i].type \notin others
  PROVE  Shown(parts, hidden \cup others) = Shown(parts, hidden)
<1> DEFINE U(hide) == {i \in DOMAIN parts :
                         /\ parts[i].type \notin hide
                         /\ parts[i].type \in {"image", "audio"} \/ parts[i].text = "words"}
           Part1(p) == IF p.type \in {"image", "audio"} THEN p.type ELSE "words"
           a == At(parts, U(hidden \cup others))
           b == At(parts, U(hidden))
<1>1. U(hidden \cup others) = U(hidden)
  OBVIOUS
<1>2. Shown(parts, hidden \cup others) = [i \in DOMAIN a |-> Part1(a[i])]
  BY DEF Shown
<1>3. Shown(parts, hidden) = [i \in DOMAIN b |-> Part1(b[i])]
  BY DEF Shown
<1>4. a = b
  <2> HIDE DEF U
  <2>1. QED
    BY <1>1
<1> HIDE DEF a, b
<1>5. QED
  BY <1>2, <1>3, <1>4

\* The events of an assistant's tool calls.
PiPlaces(parts) == {i \in DOMAIN parts : parts[i].type \in PiCallTypes}
PiCalls(own, calls) ==
  [i \in DOMAIN calls |-> [own EXCEPT !.type = IF calls[i].type = "bashCall" THEN "command" ELSE "tool_call",
                                      !.content = <<>>]]

LEMMA PiAssistantSplits ==
  ASSUME NEW own, NEW entry, entry.form = "parts"
  PROVE  Pi!MapAssistantMessage(own, entry) =
           <<[own EXCEPT !.content = PiBlocks(At(entry.parts, Kept(entry.parts, PiCallTypes)))]>>
             \o PiCalls(own, At(entry.parts, PiPlaces(entry.parts)))
<1> DEFINE isCall == {i \in DOMAIN entry.parts : entry.parts[i].type \in {"toolCall", "bashCall"}}
           spoken == Pi!At(entry.parts, DOMAIN entry.parts \ isCall)
           calls == Pi!At(entry.parts, isCall)
<1>1. Pi!MapAssistantMessage(own, entry) = <<[own EXCEPT !.content = PiBlocks(spoken)]>> \o PiCalls(own, calls)
  BY Zenon DEF Pi!MapAssistantMessage, PiBlocks, PiCalls
<1>2. isCall = PiPlaces(entry.parts) /\ DOMAIN entry.parts \ isCall = Kept(entry.parts, PiCallTypes)
  BY DEF PiPlaces, Kept, PiCallTypes
<1>3. spoken = At(entry.parts, DOMAIN entry.parts \ isCall) /\ calls = At(entry.parts, isCall)
  BY PiOperators
<1> HIDE DEF isCall, spoken, calls
<1>4. QED
  BY <1>1, <1>2, <1>3

LEMMA PiAssistantTold ==
  ASSUME NEW entry, Pi!IsEntry(entry), entry.form = "parts", NEW line
  PROVE  LET own == Event("assistant_message", "assistant", line, RawBlocks)
             events == Pi!MapAssistantMessage(own, entry)
         IN  /\ UsageEvents(events) = Says("assistant", line, Shown(entry.parts, Thoughts \cup PiCallTypes))
             /\ events # <<>>
<1> DEFINE own == Event("assistant_message", "assistant", line, RawBlocks)
           events == Pi!MapAssistantMessage(own, entry)
           parts == entry.parts
           n == Len(parts)
           K == Kept(parts, PiCallTypes)
           T == PiPlaces(parts)
           spoken == At(parts, K)
           calls == At(parts, T)
           blocks == PiBlocks(spoken)
           first == [own EXCEPT !.content = blocks]
           children == PiCalls(own, calls)
           k == Cardinality(T)
<1>1. n \in Nat /\ DOMAIN parts = 1..n
  <2>1. entry.parts \in Seq(Pi!Parts)
    BY DEF Pi!IsEntry
  <2>2. QED
    BY <2>1
<1>2. events = <<first>> \o children
  BY PiAssistantSplits
<1>3. Cardinality(K) \in Nat /\ DOMAIN spoken = 1..Cardinality(K) /\ k \in Nat /\ DOMAIN calls = 1..k
  <2>1. K \in SUBSET (1..n) /\ T \in SUBSET (1..n)
    BY <1>1 DEF Kept, PiPlaces
  <2> HIDE DEF K, T, n, parts
  <2>2. QED
    BY <1>1, <2>1, Selected
<1>4. Shown(spoken, Thoughts) = Shown(parts, Thoughts \cup PiCallTypes)
  <2>1. PiCallTypes \cap {"image", "audio"} = {}
    BY DEF PiCallTypes
  <2>2. Shown(spoken, Thoughts) = Shown(parts, PiCallTypes \cup Thoughts)
    <3> HIDE DEF parts, n
    <3>1. QED
      BY <1>1, <2>1, ShownOfKept
  <2>3. PiCallTypes \cup Thoughts = Thoughts \cup PiCallTypes
    OBVIOUS
  <2>4. QED
    BY <2>2, <2>3
<1> HIDE DEF spoken, calls, K, T
<1>5. VisibleParts(blocks) = Shown(spoken, Thoughts)
  BY <1>3, PiVisible
<1>6. first = Event("assistant_message", "assistant", line, blocks)
  <2> HIDE DEF blocks
  <2>1. QED
    BY DEF Event
<1>7. ASSUME NEW i \in 1..k PROVE ~Usable(children[i])
  <2> DEFINE type == IF calls[i].type = "bashCall" THEN "command" ELSE "tool_call"
  <2>1. children[i] = [own EXCEPT !.type = type, !.content = <<>>]
    BY <1>3 DEF PiCalls
  <2>2. type \in {"command", "tool_call"}
    OBVIOUS
  <2> HIDE DEF type
  <2>3. [own EXCEPT !.type = type, !.content = <<>>].type = type
    BY DEF Event
  <2> HIDE DEF children
  <2>4. QED
    BY <2>1, <2>2, <2>3, ToldSilent
<1>8. children \in [1..k -> {children[i] : i \in 1..k}]
  BY <1>3 DEF PiCalls
<1> HIDE DEF children, first, blocks
<1>9. UsageEvents(events) = Told(first)
  <2> HIDE DEF events
  <2>1. QED
    BY <1>2, <1>3, <1>7, <1>8, FollowedBySilence
<1>10. Told(first) = Says("assistant", line, Shown(parts, Thoughts \cup PiCallTypes))
  BY <1>4, <1>5, <1>6 DEF Told, Usable, Event, Says
<1>11. events # <<>>
  <2> DEFINE S == {children[i] : i \in 1..k}
  <2>0. children \in [1..k -> S]
    BY <1>8
  <2> HIDE DEF S
  <2>1. children \in Seq(S) /\ Len(children) \in Nat
    BY <1>3, <2>0
  <2>2. Len(<<first>> \o children) = 1 + Len(children)
    BY <2>1
  <2> HIDE DEF events
  <2>3. QED
    BY <1>2, <2>1, <2>2
<1>12. QED
  BY <1>9, <1>10, <1>11

PiFails(entry) == entry.type = "" \/ (entry.type = "message" /\ ~entry.valid)

LEMMA PiContent ==
  ASSUME NEW entry, Pi!IsEntry(entry)
  PROVE  /\ Pi!ParseContent(entry) = IF entry.form = "object" THEN RawBlocks ELSE PiBlocks(entry.parts)
         /\ VisibleParts(Pi!ParseContent(entry)) =
              IF entry.form = "object" THEN <<>> ELSE Shown(entry.parts, Thoughts)
<1>1. Pi!ParseContent(entry) = IF entry.form = "object" THEN RawBlocks ELSE PiBlocks(entry.parts)
  BY PiOperators, Zenon DEF Pi!ParseContent, PiBlocks
<1>2. VisibleParts(PiBlocks(entry.parts)) = Shown(entry.parts, Thoughts)
  <2>1. entry.parts \in Seq(Pi!Parts)
    BY DEF Pi!IsEntry
  <2>2. Len(entry.parts) \in Nat /\ DOMAIN entry.parts = 1..Len(entry.parts)
    BY <2>1
  <2>3. QED
    BY <2>2, PiVisible
<1>3. QED
  BY <1>1, <1>2, RawShowsNothing

LEMMA PiMessageTold ==
  ASSUME NEW entry, Pi!IsEntry(entry), entry.type = "message", entry.valid, NEW line
  PROVE  LET events == Pi!MapMessage(Event("metadata", "harness", line, RawBlocks), entry)
         IN  UsageEvents(events) = PiSays(entry, line) /\ events # <<>>
<1> DEFINE base == Event("metadata", "harness", line, RawBlocks)
           events == Pi!MapMessage(base, entry)
           content == Pi!ParseContent(entry)
           user == [base EXCEPT !.type = "user_message", !.role = "user", !.content = content]
           answer == [base EXCEPT !.type = "assistant_message", !.role = "assistant"]
           said == [answer EXCEPT !.content = content]
           result == [base EXCEPT !.type = "tool_result", !.role = "tool", !.content = content]
           output == [base EXCEPT !.type = "command_result", !.role = "tool", !.content = content]
           custom == [base EXCEPT !.type = "metadata", !.role = "harness", !.content = content]
           branch == [base EXCEPT !.type = "branch", !.role = "harness", !.content = content]
           summary == [base EXCEPT !.type = "compaction", !.role = "harness", !.content = content]
           unknown == [base EXCEPT !.type = "unknown", !.role = "unknown", !.content = RawBlocks]
           Others == {result, output, custom, branch, summary, unknown}
<1>1. events =
        CASE entry.role = "user"              -> <<user>>
          [] entry.role = "assistant"         -> Pi!MapAssistantMessage(answer, entry)
          [] entry.role = "toolResult"        -> <<result>>
          [] entry.role = "bashExecution"     -> <<output>>
          [] entry.role = "custom"            -> <<custom>>
          [] entry.role = "branchSummary"     -> <<branch>>
          [] entry.role = "compactionSummary" -> <<summary>>
          [] OTHER -> <<unknown>>
  BY PiOperators, Zenon DEF Pi!MapMessage
<1>2. PiSays(entry, line) =
        IF entry.form # "object"
        THEN Says(entry.role, line, Shown(entry.parts, Thoughts \cup IF entry.role = "assistant" THEN PiCallTypes ELSE {}))
        ELSE <<>>
  BY DEF PiSays, PiCallTypes
<1>3. VisibleParts(content) = IF entry.form = "object" THEN <<>> ELSE Shown(entry.parts, Thoughts)
  BY PiContent
<1>4. CASE entry.role = "user"
  <2>1. events = <<user>>
    BY <1>1, <1>4
  <2> HIDE DEF content
  <2>2. user.type = "user_message" /\ user.role = "user" /\ user.content = content /\ user.pos = line
    BY DEF Event
  <2> HIDE DEF user, events
  <2>3. UsageEvents(events) = Told(user) /\ events # <<>>
    BY <2>1, OneEvent
  <2>4. Thoughts \cup {} = Thoughts
    OBVIOUS
  <2>5. PiSays(entry, line) = IF entry.form # "object" THEN Says("user", line, Shown(entry.parts, Thoughts)) ELSE <<>>
    BY <1>2, <1>4, <2>4, Zenon
  <2>6. Told(user) = Says("user", line, VisibleParts(content))
    BY <2>2 DEF Told, Usable, Says
  <2>7. Says("user", line, <<>>) = <<>>
    BY DEF Says
  <2>8. QED
    BY <1>3, <2>3, <2>5, <2>6, <2>7 DEF events
<1>5. CASE entry.role = "assistant"
  <2>1. events = Pi!MapAssistantMessage(answer, entry)
    BY <1>1, <1>5
  <2>2. answer = Event("assistant_message", "assistant", line, RawBlocks)
    <3> DEFINE typed == [base EXCEPT !.type = "assistant_message"]
    <3>1. typed = Event("assistant_message", "harness", line, RawBlocks)
      BY DEF Event
    <3>2. answer = [typed EXCEPT !.role = "assistant"]
      OBVIOUS
    <3> HIDE DEF typed
    <3>3. [typed EXCEPT !.role = "assistant"] = Event("assistant_message", "assistant", line, RawBlocks)
      BY <3>1 DEF Event
    <3>4. QED
      BY <3>2, <3>3
  <2>3. CASE entry.form = "parts"
    <3> HIDE DEF events
    <3>1. UsageEvents(events) = Says("assistant", line, Shown(entry.parts, Thoughts \cup PiCallTypes)) /\ events # <<>>
      BY <2>1, <2>2, <2>3, PiAssistantTold
    <3>2. QED
      BY <1>2, <1>5, <2>3, <3>1 DEF events
  <2>4. CASE entry.form # "parts"
    <3>1. events = <<said>>
      BY <2>1, <2>4 DEF Pi!MapAssistantMessage
    <3> HIDE DEF content, answer
    <3>2. said.type = "assistant_message" /\ said.role = "assistant" /\ said.content = content /\ said.pos = line
      BY <2>2 DEF Event
    <3> HIDE DEF said, events
    <3>3. UsageEvents(events) = Told(said) /\ events # <<>>
      BY <3>1, OneEvent
    <3>4. Told(said) = Says("assistant", line, VisibleParts(content))
      BY <3>2 DEF Told, Usable, Says
    <3>5. Says("assistant", line, <<>>) = <<>>
      BY DEF Says
    <3>6. entry.form # "object" => Shown(entry.parts, Thoughts \cup PiCallTypes) = Shown(entry.parts, Thoughts)
      <4>1. entry.form \in {"null", "string", "object"}
        BY <2>4 DEF Pi!IsEntry
      <4>2. entry.form = "null" => entry.parts = <<>>
        BY DEF Pi!IsEntry
      <4>3. entry.form = "string" => \A i \in DOMAIN entry.parts : entry.parts[i].type = "text"
        BY DEF Pi!IsEntry
      <4>4. entry.form # "object" => \A i \in DOMAIN entry.parts : entry.parts[i].type \notin PiCallTypes
        BY <4>1, <4>2, <4>3 DEF PiCallTypes
      <4>5. QED
        BY <4>4, ShownSame
    <3>7. QED
      BY <1>2, <1>3, <1>5, <3>3, <3>4, <3>5, <3>6 DEF events
  <2>5. QED
    BY <2>3, <2>4
<1>6. CASE entry.role \notin {"user", "assistant"}
  <2>1. \E e \in Others : events = <<e>>
    BY <1>1, <1>6
  <2>2. \A e \in Others : e.type \in {"tool_result", "command_result", "metadata", "branch", "compaction", "unknown"}
    <3> HIDE DEF content
    <3>1. result.type = "tool_result" /\ output.type = "command_result" /\ custom.type = "metadata"
          /\ branch.type = "branch" /\ summary.type = "compaction" /\ unknown.type = "unknown"
      BY DEF Event
    <3> HIDE DEF result, output, custom, branch, summary, unknown
    <3>2. QED
      BY <3>1
  <2> HIDE DEF Others, events
  <2>3. PICK e \in Others : events = <<e>>
    BY <2>1
  <2>4. Told(e) = <<>>
    BY <2>2, ToldSilent
  <2>5. PiSays(entry, line) = <<>>
    BY <1>2, <1>6 DEF Says
  <2>6. QED
    BY <2>3, <2>4, <2>5, OneEvent DEF events
<1>7. QED
  BY <1>4, <1>5, <1>6

\* What an entry of a Pi session shows is what it says.
LEMMA PiTold ==
  ASSUME NEW entry, Pi!IsEntry(entry), NEW line
  PROVE  /\ UsageEvents(Pi!MapEntry(entry, line)) = PiSays(entry, line)
         /\ Pi!MapEntry(entry, line) = Pi!MapError <=> PiFails(entry)
<1> DEFINE base == Event("metadata", "harness", line, RawBlocks)
           content == Pi!ParseContent(entry)
           events == Pi!MapEntry(entry, line)
           model == [base EXCEPT !.type = "model_change"]
           compaction == [base EXCEPT !.type = "compaction", !.content = content]
           branch == [base EXCEPT !.type = "branch", !.content = content]
           metadata == [base EXCEPT !.type = "metadata", !.content = content]
           unknown == [base EXCEPT !.type = "unknown"]
           Others == {model, compaction, branch, metadata, base, unknown}
<1>1. events =
        CASE entry.type = ""                          -> Pi!MapError
          [] entry.type = "message"                   -> Pi!MapMessage(base, entry)
          [] entry.type = "model_change"              -> <<model>>
          [] entry.type = "compaction"                -> <<compaction>>
          [] entry.type \in {"branch_summary", "label"} -> <<branch>>
          [] entry.type \in {"custom_message", "session_info", "thinking_level_change"} -> <<metadata>>
          [] entry.type = "custom"                    -> <<base>>
          [] entry.type \in {"session", "other"}      -> <<unknown>>
  BY PiOperators, Zenon DEF Pi!MapEntry
<1>2. entry.type \in {"", "message", "model_change", "compaction", "branch_summary", "label", "custom_message",
                      "session_info", "thinking_level_change", "custom", "session", "other"} /\ entry.valid \in BOOLEAN
  BY DEF Pi!IsEntry
<1>3. CASE PiFails(entry)
  <2>1. events = <<>>
    BY <1>1, <1>2, <1>3 DEF PiFails, Pi!MapError, Pi!MapMessage
  <2>2. UsageEvents(<<>>) = <<>>
    <3>1. FirstOnly(<<>>, 0)
      BY DEF FirstOnly
    <3>2. QED
      BY <3>1, FirstIsTold
  <2>3. PiSays(entry, line) = <<>>
    BY <1>3 DEF PiFails, PiSays
  <2>4. QED
    BY <1>3, <2>1, <2>2, <2>3 DEF Pi!MapError
<1>4. CASE ~PiFails(entry) /\ entry.type = "message"
  <2>1. events = Pi!MapMessage(base, entry) /\ entry.valid
    BY <1>1, <1>2, <1>4 DEF PiFails
  <2> HIDE DEF events
  <2>2. UsageEvents(events) = PiSays(entry, line) /\ events # <<>>
    BY <1>4, <2>1, PiMessageTold
  <2>3. QED
    BY <1>4, <2>2 DEF Pi!MapError, events
<1>5. CASE ~PiFails(entry) /\ entry.type # "message"
  <2>1. \E e \in Others : events = <<e>>
    BY <1>1, <1>2, <1>5 DEF PiFails
  <2>2. \A e \in Others : e.type \notin {"user_message", "assistant_message"}
    <3> HIDE DEF content
    <3>1. model.type = "model_change" /\ compaction.type = "compaction" /\ branch.type = "branch"
          /\ metadata.type = "metadata" /\ base.type = "metadata" /\ unknown.type = "unknown"
      BY DEF Event
    <3> HIDE DEF model, compaction, branch, metadata, base, unknown
    <3>2. QED
      BY <3>1
  <2> HIDE DEF Others, events
  <2>3. PICK e \in Others : events = <<e>>
    BY <2>1
  <2>4. Told(e) = <<>>
    BY <2>2, ToldSilent
  <2>5. PiSays(entry, line) = <<>>
    BY <1>5 DEF PiSays
  <2>6. QED
    BY <1>5, <2>3, <2>4, <2>5, OneEvent DEF events, Pi!MapError
<1>6. QED
  BY <1>3, <1>4, <1>5

(***************************************************************************)
(* OpenCode's messages and parts.                                          *)
(***************************************************************************)

LEMMA OpenCodeOperators ==
  /\ \A type, role, pos, content : OpenCode!Event(type, role, pos, content) = Event(type, role, pos, content)
  /\ \A name : OpenCode!RoleOf(name) = RoleOf(name) /\ OpenCode!MessageType(name) = MessageType(name)
  /\ OpenCode!RawBlocks = RawBlocks
BY Zenon DEF OpenCode!Event, Event, OpenCode!RoleOf, RoleOf, OpenCode!MessageType, MessageType,
   OpenCode!RawBlocks, RawBlocks, OpenCode!Block, Block

\* A silent event before the others changes nothing.
LEMMA SilentFirst ==
  ASSUME NEW S, NEW events \in Seq(S), NEW first \in S, ~Usable(first)
  PROVE  UsageEvents(<<first>> \o events) = UsageEvents(events)
<1> DEFINE n == Len(events)
           all == <<first>> \o events
           W == {i \in DOMAIN events : Usable(events[i])}
           V == {i \in DOMAIN all : Usable(all[i])}
           k == Cardinality(W)
           Message(event) == [speaker |-> event.role, pos |-> event.pos, parts |-> VisibleParts(event.content)]
           a == At(events, W)
           b == At(all, V)
<1>1. n \in Nat /\ DOMAIN events = 1..n /\ DOMAIN all = 1..(n + 1) /\ all[1] = first
      /\ \A i \in 1..n : all[i + 1] = events[i]
  OBVIOUS
<1>2. UsageEvents(events) = [i \in DOMAIN a |-> Message(a[i])] /\ UsageEvents(all) = [i \in DOMAIN b |-> Message(b[i])]
  BY DEF UsageEvents
<1> HIDE DEF all, n, Message
<1>3. k \in Nat /\ IsFiniteSet(W) /\ W \in SUBSET (1..n) /\ W \in SUBSET Nat
  <2>1. W \in SUBSET (1..n) /\ W \in SUBSET Nat
    BY <1>1
  <2>2. IsFiniteSet(1..n)
    BY <1>1, NumbersTo
  <2> HIDE DEF W
  <2>3. QED
    BY <1>1, <2>1, <2>2, SubsetSizes
<1>4. PICK f \in [1..k -> W] : Enumerates(f, k, W)
  BY <1>3, EnumerationExists
<1> DEFINE g == [i \in 1..k |-> f[i] + 1]
<1>5. Enumerates(g, k, V)
  <2>1. \A i \in 1..k : g[i] = f[i] + 1 /\ f[i] \in 1..n
    BY <1>3, <1>4
  <2>2. /\ \A i, j \in 1..k : i < j => f[i] < f[j]
        /\ W = {f[i] : i \in 1..k}
    BY <1>4 DEF Enumerates
  <2>3. ASSUME NEW v \in V PROVE \E i \in 1..k : v = g[i]
    <3>1. v \in 1..(n + 1) /\ v # 1
      BY <1>1, <2>3
    <3>2. v - 1 \in 1..n /\ (v - 1) + 1 = v
      BY <1>1, <3>1
    <3>3. v - 1 \in W
      BY <1>1, <2>3, <3>2
    <3>4. QED
      BY <2>1, <2>2, <3>2, <3>3
  <2>4. ASSUME NEW i \in 1..k PROVE g[i] \in V
    <3>1. f[i] \in W
      BY <1>4
    <3>2. f[i] + 1 \in 1..(n + 1) /\ all[f[i] + 1] = events[f[i]] /\ Usable(events[f[i]])
      BY <1>1, <2>1, <3>1
    <3>3. QED
      BY <1>1, <2>1, <3>2
  <2> HIDE DEF g, V, W
  <2>5. V = {g[i] : i \in 1..k}
    BY <2>3, <2>4
  <2>6. \A i \in 1..k : g[i] \in Nat
    BY <1>1, <2>1
  <2>7. \A i, j \in 1..k : i < j => g[i] < g[j]
    BY <1>1, <2>1, <2>2
  <2>8. QED
    BY <2>5, <2>6, <2>7 DEF Enumerates
<1>6. a = Named(events, f, k) /\ b = Named(all, g, k)
  BY <1>3, <1>4, <1>5, AtEnumerated
<1>7. DOMAIN a = 1..k /\ DOMAIN b = 1..k /\ \A i \in 1..k : a[i] = b[i]
  <2>1. \A i \in 1..k : g[i] = f[i] + 1 /\ f[i] \in 1..n
    BY <1>3, <1>4
  <2>2. \A i \in 1..k : a[i] = events[f[i]] /\ b[i] = all[g[i]]
    BY <1>6 DEF Named
  <2>3. DOMAIN a = 1..k /\ DOMAIN b = 1..k
    BY <1>6 DEF Named
  <2> HIDE DEF a, b, g
  <2>4. QED
    BY <1>1, <2>1, <2>2, <2>3
<1> HIDE DEF a, b, W, V
<1>8. QED
  BY <1>2, <1>7 DEF all

LEMMA OneBlock ==
  ASSUME NEW kind \in {"text", "reasoning", "tool_result"}, NEW text
  PROVE  VisibleParts(<<Block(kind, text)>>) = IF kind # "reasoning" /\ text = "words" THEN <<"words">> ELSE <<>>
<1> DEFINE content == <<Block(kind, text)>>
           W == {i \in DOMAIN content : \/ content[i].kind \in {"image", "audio"}
                                        \/ content[i].kind \notin ReasoningKinds /\ content[i].text = "words"}
           shown == At(content, W)
           Shows(block) == IF block.kind \in {"image", "audio"} THEN block.kind ELSE "words"
<1>1. VisibleParts(content) = [i \in DOMAIN shown |-> Shows(shown[i])]
  BY DEF VisibleParts
<1>2. content[1].kind = kind /\ content[1].text = text /\ DOMAIN content = {1}
  BY DEF Block
<1>3. Shows(content[1]) = "words"
  BY <1>2
<1>4. W = IF kind # "reasoning" /\ text = "words" THEN {1} ELSE {}
  BY <1>2 DEF ReasoningKinds
<1>5. shown = IF kind # "reasoning" /\ text = "words" THEN <<content[1]>> ELSE <<>>
  <2> HIDE DEF content, W
  <2>1. 1 \in Nat
    OBVIOUS
  <2>2. QED
    BY <1>4, <2>1, AtOne
<1> HIDE DEF shown, Shows
<1>6. QED
  BY <1>1, <1>3, <1>5

\* What a part tells: a text, by a user or the assistant.
PartSays(message, part, index) ==
  IF message.valid /\ part.valid /\ part.type = "text" /\ part.text = "words" /\ message.role \in {"user", "assistant"}
  THEN <<[speaker |-> message.role, pos |-> index, parts |-> <<"words">>]>> ELSE <<>>

LEMMA OpenCodeMetadata ==
  ASSUME NEW message, NEW index
  PROVE  /\ ~Usable(OpenCode!MapMessageMetadata(message, index))
         /\ UsageEvents(<<OpenCode!MapMessageMetadata(message, index)>>) = <<>>
<1> DEFINE event == OpenCode!MapMessageMetadata(message, index)
           type == IF message.valid /\ message.failed THEN "error" ELSE "metadata"
<1>1. event = Event(type, OpenCode!RoleName(message), index, RawBlocks)
  BY OpenCodeOperators, Zenon DEF OpenCode!MapMessageMetadata
<1>2. event.type \in {"error", "metadata"}
  BY <1>1 DEF Event
<1> HIDE DEF event
<1>3. QED
  BY <1>2, ToldSilent, OneEvent DEF event

\* A part becomes one event or two, of which the first may be a message.
LEMMA OpenCodePartTold ==
  ASSUME NEW message, NEW part, NEW index
  PROVE  LET events == OpenCode!PartEvents(message, part, index)
         IN  /\ UsageEvents(events) = PartSays(message, part, index)
             /\ \E S : events \in Seq(S)
             /\ Len(events) \in {1, 2}
<1> DEFINE role == OpenCode!RoleName(message)
           base == Event("metadata", role, index, RawBlocks)
           events == OpenCode!PartEvents(message, part, index)
           type == IF part.valid THEN part.type ELSE "invalid"
           said == [base EXCEPT !.type = MessageType(role), !.content = <<Block("text", part.text)>>]
           invalid == [base EXCEPT !.type = "unknown", !.role = "unknown"]
           thought == [base EXCEPT !.role = "assistant", !.content = <<Block("reasoning", part.text)>>]
           Of(t) == [base EXCEPT !.type = t]
           Types == {"file_change", "compaction", "subagent_start", "error", "metadata", "unknown"}
<1>1. events =
        CASE type = "invalid" -> <<invalid>>
          [] type = "text" -> <<said>>
          [] type = "reasoning" -> <<thought>>
          [] type = "tool"       -> OpenCode!MapToolPart(base, part)
          [] type = "patch"      -> <<Of("file_change")>>
          [] type = "compaction" -> <<Of("compaction")>>
          [] type = "subtask"    -> <<Of("subagent_start")>>
          [] type = "retry"      -> <<Of("error")>>
          [] type \in {"file", "step-start", "snapshot"} -> <<Of("metadata")>>
          [] OTHER -> <<Of("unknown")>>
  BY OpenCodeOperators, Zenon DEF OpenCode!PartEvents, OpenCode!Block, Block
<1>2. ASSUME NEW event, events = <<event>>, event.type \notin {"user_message", "assistant_message"},
             type # "text"
      PROVE  UsageEvents(events) = PartSays(message, part, index) /\ (\E S : events \in Seq(S)) /\ Len(events) \in {1, 2}
  <2> HIDE DEF events
  <2>1. UsageEvents(events) = <<>>
    BY <1>2, OneEvent, ToldSilent
  <2>2. PartSays(message, part, index) = <<>>
    BY <1>2 DEF PartSays
  <2>3. events \in Seq({event}) /\ Len(events) = 1
    BY <1>2
  <2>4. QED
    BY <2>1, <2>2, <2>3
<1>3. CASE type = "text" /\ type # "invalid"
  <2>1. events = <<said>>
    BY <1>1, <1>3
  <2> DEFINE block == <<Block("text", part.text)>>
  <2> HIDE DEF role, block
  <2>2. said.type = MessageType(role) /\ said.role = role /\ said.pos = index /\ said.content = block
    BY DEF Event, block
  <2>3. VisibleParts(block) = IF part.text = "words" THEN <<"words">> ELSE <<>>
    BY OneBlock DEF block
  <2>4. role \in {"user", "assistant"} <=> message.valid /\ message.role \in {"user", "assistant"}
    BY OpenCodeOperators DEF OpenCode!RoleName, RoleOf, role
  <2>5. role \in {"user", "assistant"} => role = message.role
    BY OpenCodeOperators DEF OpenCode!RoleName, RoleOf, role
  <2> HIDE DEF said, events
  <2>6. UsageEvents(events) = Told(said)
    BY <2>1, OneEvent
  <2>7. Told(said) = IF role \in {"user", "assistant"} /\ part.text = "words"
                     THEN <<[speaker |-> role, pos |-> index, parts |-> <<"words">>]>> ELSE <<>>
    BY <2>2, <2>3 DEF Told, Usable, MessageType
  <2>8. part.valid /\ part.type = "text"
    BY <1>3
  <2>9. UsageEvents(events) = PartSays(message, part, index)
    BY <2>4, <2>5, <2>6, <2>7, <2>8 DEF PartSays
  <2>10. events \in Seq({said}) /\ Len(events) = 1
    BY <2>1
  <2>11. QED
    BY <2>9, <2>10 DEF events
<1>4. CASE type = "invalid"
  <2>1. events = <<invalid>>
    BY <1>1, <1>4
  <2>2. invalid.type = "unknown"
    BY DEF Event
  <2> HIDE DEF invalid, events
  <2>3. QED
    BY <1>2, <1>4, <2>1, <2>2 DEF events
<1>5. CASE type = "reasoning"
  <2>1. events = <<thought>>
    BY <1>1, <1>5
  <2>2. thought.type = "metadata"
    BY DEF Event
  <2> HIDE DEF thought, events
  <2>3. QED
    BY <1>2, <1>5, <2>1, <2>2 DEF events
<1>6. CASE type = "tool"
  <2> DEFINE call == [base EXCEPT !.type = IF part.shell THEN "command" ELSE "tool_call",
                                  !.role = "assistant", !.content = OpenCode!RawBlocks]
             result == [base EXCEPT !.type = IF part.shell THEN "command_result" ELSE "tool_result",
                                    !.role = "tool", !.content = <<OpenCode!Block("tool_result", part.text)>>]
  <2>1. events = IF part.ended THEN <<call, result>> ELSE <<call>>
    BY <1>1, <1>6 DEF OpenCode!MapToolPart
  <2>2. call.type \in {"command", "tool_call"} /\ result.type \in {"command_result", "tool_result"}
    BY DEF Event
  <2> HIDE DEF call, result, events
  <2>3. CASE ~part.ended
    BY <1>2, <1>6, <2>1, <2>2, <2>3 DEF events
  <2>4. CASE part.ended
    <3>1. FirstOnly(events, 2)
      BY <2>1, <2>2, <2>4, ToldSilent DEF FirstOnly
    <3>2. UsageEvents(events) = Told(call)
      BY <2>1, <2>4, <3>1, FirstIsTold
    <3>3. Told(call) = <<>>
      BY <2>2, ToldSilent
    <3>4. PartSays(message, part, index) = <<>>
      BY <1>6 DEF PartSays
    <3>5. events \in Seq({call, result}) /\ Len(events) = 2
      BY <2>1, <2>4
    <3>6. QED
      BY <3>2, <3>3, <3>4, <3>5 DEF events
  <2>5. QED
    BY <2>3, <2>4
<1>7. CASE type \notin {"invalid", "text", "reasoning", "tool"}
  <2>1. \E t \in Types : events = <<Of(t)>>
    BY <1>1, <1>7
  <2>2. PICK t \in Types : events = <<Of(t)>>
    BY <2>1
  <2>3. Of(t).type = t
    BY DEF Event
  <2> DEFINE event == Of(t)
  <2> HIDE DEF event, events
  <2>4. QED
    BY <1>2, <1>7, <2>2, <2>3 DEF event, events
<1>8. QED
  BY <1>3, <1>4, <1>5, <1>6, <1>7

USE DEF LineHarnesses

(***************************************************************************)
(* The invariant.  As long as the file's size and time are those of the    *)
(* first stat, nothing was written since (Since: they never go back, and   *)
(* every write moves one of them), so the path still names the inode that  *)
(* was opened, its lines are those of the first stat, and what was read    *)
(* and what is buffered are a beginning of them (Still).  UnchangedIs-     *)
(* Snapshot alone says nothing before the end.                             *)
(***************************************************************************)

\* The local variables of a Parse that reads lines.
Fields ==
  {"partial", "malformed", "changed", "error", "pc", "before", "fd", "position", "buffer",
   "commands", "index", "order", "active"}
IsReader(r) == r = [field \in Fields |-> r[field]]

\* The harness's files: what they hold is what a harness writes.
Disk ==
  /\ store \in [inodes : Seq([lines : Contents(harness), size : Nat, mtime : Nat]), path : Nat]
  /\ store.path \in 0..Len(store.inodes)

\* The reader's variables have their types; a descriptor is open while it reads.
Locals ==
  /\ IsReader(reader)
  /\ reader.pc \in {"stat", "open", "read", "index", "indexed", "emit", "after", "done"}
  /\ reader.before \in [size : Nat, mtime : Nat]
  /\ reader.fd \in 0..Len(store.inodes)
  /\ reader.pc \notin {"stat", "open", "done"} => reader.fd # 0
  /\ reader.position \in Nat
  /\ reader.buffer \in Seq(Lines(harness))
  /\ seen = [before |-> seen.before, lines |-> seen.lines, passed |-> seen.passed,
             touched |-> seen.touched, stood |-> seen.stood]
  /\ seen.lines \in Seq(Lines(harness))
  /\ seen.before \in Contents(harness)

\* What was read is a beginning of the file as first seen, and the buffer goes on
\* from there.
Follows ==
  /\ reader.position = Len(seen.lines)
  /\ reader.position + Len(reader.buffer) <= Len(seen.before)
  /\ \A i \in 1..reader.position : seen.lines[i] = seen.before[i]
  /\ \A i \in 1..Len(reader.buffer) : reader.buffer[i] = seen.before[reader.position + i]

\* Nothing was written since the first stat.
Still ==
  /\ Inode(store.path).lines = seen.before
  /\ reader.pc # "open" => reader.fd = store.path
  /\ reader.pc \in {"open", "read", "index"} => Follows
  /\ reader.pc \in {"indexed", "emit", "after"} => seen.lines = seen.before

\* Neither size nor time goes back.
Since == Stat.size >= reader.before.size /\ Stat.mtime >= reader.before.mtime

\* What the two stats are worth, at every step between them.
Snapshot ==
  /\ reader.pc = "stat" => seen.lines = <<>> /\ reader.position = 0 /\ reader.buffer = <<>>
  /\ reader.pc \notin {"stat", "done"} /\ PathThere => Since /\ (Stat = reader.before => Still)
  /\ reader.pc = "done" /\ reader.error = "none" /\ ~reader.changed /\ seen.stood =>
       seen.lines = seen.before

\* The invariant, about the three harnesses that write files of lines.
LineInv == harness \in LineHarnesses => Disk /\ Locals /\ Snapshot

(***************************************************************************)
(* A fact about sequences, and the first state.                            *)
(***************************************************************************)

LEMMA InSeq == ASSUME NEW S, NEW s \in Seq(S), NEW i \in 1..Len(s) PROVE s[i] \in S
  OBVIOUS

\* Before the first stat nothing was read.
LEMMA LineInit == Init => LineInv
<1> SUFFICES ASSUME Init, harness \in LineHarnesses PROVE Disk /\ Locals /\ Snapshot
  BY DEF LineInv
<1>1. PICK lines \in Contents(harness) : store = Transcript(lines)
  BY ReadingAssumption DEF Init
<1>2. reader = Start(harness) /\ IsReader(reader) /\ reader.pc = "stat" /\ reader.position = 0 /\ reader.fd = 0
      /\ reader.buffer = <<>> /\ reader.before = [size |-> 0, mtime |-> 0]
  BY ZenonT(60) DEF Init, Start, With, NoResult, IsReader, Fields
<1>3. <<>> \in Contents(harness) /\ Len(lines) \in Nat
  BY DEF Contents
<1>4. seen = [before |-> <<>>, lines |-> <<>>, passed |-> <<>>, touched |-> {}, stood |-> TRUE]
  BY DEF Init
<1>5. Disk
  BY <1>1, <1>3 DEF Disk, Transcript
<1>6. Locals
  BY <1>2, <1>3, <1>4, <1>5 DEF Locals, Disk
<1>7. Snapshot
  BY <1>2, <1>4 DEF Snapshot
<1> QED
  BY <1>5, <1>6, <1>7

(***************************************************************************)
(* The harness.                                                            *)
(***************************************************************************)

\* The five ways in which it writes to a file.
Writes == HarnessAppends \/ HarnessCompletes \/ HarnessRewrites \/ HarnessReplaces \/ HarnessRemoves

\* Every write leaves a file of well-formed lines, and moves what stat returns,
\* unless the file is gone.
LEMMA WritesMoveStat ==
  ASSUME harness \in LineHarnesses, Disk, Writes
  PROVE  /\ Disk' /\ Len(store'.inodes) >= Len(store.inodes)
         /\ PathThere' => /\ PathThere /\ Stat'.size >= Stat.size /\ Stat'.mtime >= Stat.mtime
                          /\ Stat'.size > Stat.size \/ Stat'.mtime > Stat.mtime
<1> DEFINE inode == Inode(store.path)
           InodeType == [lines : Contents(harness), size : Nat, mtime : Nat]
<1>1. /\ harness' = harness /\ PathThere /\ inode \in InodeType /\ Stat = [size |-> inode.size, mtime |-> inode.mtime]
      /\ store.path \in 1..Len(store.inodes)
  <2>1. harness' = harness /\ PathThere
    BY DEF Writes, HarnessAppends, HarnessCompletes, HarnessRewrites, HarnessReplaces, HarnessRemoves
  <2>2. store.path \in 1..Len(store.inodes)
    BY <2>1 DEF Disk, PathThere
  <2>3. store.inodes \in Seq(InodeType)
    BY DEF Disk
  <2> HIDE DEF InodeType
  <2>4. store.inodes[store.path] \in InodeType
    BY <2>2, <2>3
  <2>5. inode = store.inodes[store.path] /\ Stat = [size |-> inode.size, mtime |-> inode.mtime]
    BY DEF Inode, Stat
  <2> QED
    BY <2>1, <2>2, <2>4, <2>5
<1>2. ASSUME NEW new \in InodeType, Written(new),
             new.size >= inode.size, new.mtime >= inode.mtime, new.size > inode.size \/ new.mtime > inode.mtime
      PROVE  /\ Disk' /\ Len(store'.inodes) >= Len(store.inodes)
             /\ Stat'.size >= Stat.size /\ Stat'.mtime >= Stat.mtime
             /\ Stat'.size > Stat.size \/ Stat'.mtime > Stat.mtime
  <2>1. store' = [inodes |-> [store.inodes EXCEPT ![store.path] = new], path |-> store.path]
    BY <1>2 DEF Written, Disk
  <2>2. Disk' /\ Len(store'.inodes) = Len(store.inodes) /\ store'.inodes[store'.path] = new
    BY <1>1, <2>1 DEF Disk
  <2>3. Stat' = [size |-> new.size, mtime |-> new.mtime]
    BY <2>2 DEF Stat, Inode
  <2> QED
    BY <1>1, <1>2, <2>2, <2>3 DEF Disk
<1>3. CASE HarnessAppends
  <2>1. PICK line \in Additions[harness], tick \in 0..1 :
          Written([lines |-> Append(inode.lines, line), size |-> inode.size + 1, mtime |-> inode.mtime + tick])
    BY <1>3 DEF HarnessAppends
  <2>2. Append(inode.lines, line) \in Contents(harness)
    <3>1. line \in Lines(harness) /\ inode.lines \in Seq(Lines(harness))
      BY <1>1, ReadingAssumption DEF Contents
    <3>2. \A i \in 1..Len(inode.lines) : inode.lines[i].form # "torn"
      BY <1>1, <1>3 DEF HarnessAppends, IsTorn, LastLine, Contents
    <3> DEFINE old == inode.lines
    <3>3. old \in Seq(Lines(harness)) /\ \A i \in 1..Len(old) : old[i].form # "torn"
      BY <3>1, <3>2
    <3> HIDE DEF old
    <3>4. /\ Append(old, line) \in Seq(Lines(harness)) /\ Len(Append(old, line)) = Len(old) + 1
          /\ Len(old) \in Nat /\ \A i \in 1..Len(old) : Append(old, line)[i] = old[i]
      BY <3>1, <3>3
    <3>5. \A i \in 1..(Len(old) + 1) : Append(old, line)[i].form = "torn" => i = Len(old) + 1
      BY <3>3, <3>4
    <3> DEFINE grown == Append(old, line)
    <3> HIDE DEF grown
    <3>6. grown \in Seq(Lines(harness)) /\ \A i \in 1..Len(grown) : grown[i].form = "torn" => i = Len(grown)
      BY <3>4, <3>5 DEF grown
    <3>7. grown \in Contents(harness)
      BY <3>6 DEF Contents
    <3> QED
      BY <3>7 DEF old, grown
  <2> DEFINE new == [lines |-> Append(inode.lines, line), size |-> inode.size + 1, mtime |-> inode.mtime + tick]
  <2>3. new \in InodeType /\ new.size >= inode.size /\ new.mtime >= inode.mtime /\ new.size > inode.size
    BY <1>1, <2>2
  <2> HIDE DEF new, inode
  <2> QED
    BY <1>1, <1>2, <2>1, <2>3 DEF new
<1>4. CASE HarnessCompletes
  <2> DEFINE lines == [inode.lines EXCEPT ![Len(inode.lines)].form = "record"]
  <2>1. PICK tick \in 0..1 :
          Written([lines |-> lines, size |-> inode.size + 1, mtime |-> inode.mtime + tick])
    BY <1>4 DEF HarnessCompletes
  <2>2. lines \in Contents(harness)
    <3>1. inode.lines \in Seq(Lines(harness)) /\ inode.lines # <<>>
      BY <1>1, <1>4 DEF Contents, HarnessCompletes, IsTorn
    <3> DEFINE last == inode.lines[Len(inode.lines)]
               completed == [last EXCEPT !.form = "record"]
    <3>2. completed \in Lines(harness)
      <4>1. last \in Lines(harness)
        BY <3>1
      <4> HIDE DEF last
      <4>2. last = [form |-> last.form, size |-> last.size, rec |-> last.rec]
            /\ last.size \in 1..3 /\ last.rec \in Records(harness)
        BY <4>1 DEF Lines
      <4>3. completed = [form |-> "record", size |-> last.size, rec |-> last.rec]
        BY <4>2
      <4> QED
        BY <4>2, <4>3 DEF Lines
    <3>3. lines \in Seq(Lines(harness)) /\ Len(lines) = Len(inode.lines)
      <4>1. lines = [inode.lines EXCEPT ![Len(inode.lines)] = completed]
        OBVIOUS
      <4> HIDE DEF lines, completed, inode
      <4> QED
        BY <3>1, <3>2, <4>1
    <3>4. \A i \in 1..Len(lines) : i # Len(lines) => lines[i] = inode.lines[i]
      BY <3>1
    <3>5. \A i \in 1..Len(lines) : lines[i].form = "torn" => i = Len(lines)
      BY <1>1, <3>1, <3>3, <3>4 DEF Contents
    <3> QED
      BY <3>3, <3>5 DEF Contents
  <2> DEFINE new == [lines |-> lines, size |-> inode.size + 1, mtime |-> inode.mtime + tick]
  <2> HIDE DEF lines
  <2>3. new \in InodeType /\ new.size >= inode.size /\ new.mtime >= inode.mtime /\ new.size > inode.size
    BY <1>1, <2>2
  <2> HIDE DEF new, inode
  <2> QED
    BY <1>1, <1>2, <2>1, <2>3 DEF new
<1>5. CASE HarnessRewrites
  <2>1. PICK lines \in Versions[harness] :
          Written([lines |-> lines, size |-> inode.size, mtime |-> inode.mtime + 1])
    BY <1>5 DEF HarnessRewrites
  <2> DEFINE new == [lines |-> lines, size |-> inode.size, mtime |-> inode.mtime + 1]
  <2>2. new \in InodeType /\ new.size >= inode.size /\ new.mtime >= inode.mtime /\ new.mtime > inode.mtime
    BY <1>1, ReadingAssumption
  <2> HIDE DEF new, inode
  <2> QED
    BY <1>1, <1>2, <2>1, <2>2 DEF new
<1>6. CASE HarnessReplaces
  <2>1. PICK lines \in Versions[harness] :
          store' = [inodes |-> Append(store.inodes, [lines |-> lines, size |-> inode.size, mtime |-> inode.mtime + 1]),
                    path |-> Len(store.inodes) + 1]
    BY <1>6 DEF HarnessReplaces
  <2>2. [lines |-> lines, size |-> inode.size, mtime |-> inode.mtime + 1] \in InodeType
    BY <1>1, ReadingAssumption
  <2>3. Disk' /\ Len(store'.inodes) = Len(store.inodes) + 1
        /\ store'.inodes[store'.path] = [lines |-> lines, size |-> inode.size, mtime |-> inode.mtime + 1]
    BY <1>1, <2>1, <2>2 DEF Disk
  <2>4. Stat' = [size |-> inode.size, mtime |-> inode.mtime + 1]
    BY <2>3 DEF Stat, Inode
  <2>5. inode.size \in Nat /\ inode.mtime \in Nat /\ Len(store.inodes) \in Nat
    BY <1>1
  <2> HIDE DEF inode
  <2> QED
    BY <1>1, <2>3, <2>4, <2>5
<1>7. CASE HarnessRemoves
  <2>1. store' = [inodes |-> store.inodes, path |-> 0]
    BY <1>7 DEF HarnessRemoves, Disk
  <2> QED
    BY <1>1, <2>1 DEF Disk, PathThere
<1> QED
  BY <1>3, <1>4, <1>5, <1>6, <1>7 DEF Writes

\* So after a write the second stat will differ from the first.
LEMMA WritesKeep == LineInv /\ harness \in LineHarnesses /\ Writes => LineInv'
<1> SUFFICES ASSUME Disk, Locals, Snapshot, harness \in LineHarnesses, Writes PROVE (Disk /\ Locals /\ Snapshot)'
  BY DEF LineInv
<1>1. /\ Disk' /\ Len(store'.inodes) >= Len(store.inodes)
      /\ PathThere' => /\ PathThere /\ Stat'.size >= Stat.size /\ Stat'.mtime >= Stat.mtime
                       /\ Stat'.size > Stat.size \/ Stat'.mtime > Stat.mtime
  BY WritesMoveStat
<1>2. UNCHANGED <<harness, reader, emitted, seen, cancelled>> /\ reader.pc # "done" /\ PathThere
  BY DEF Writes, HarnessAppends, HarnessCompletes, HarnessRewrites, HarnessReplaces, HarnessRemoves, MayWrite, Running
<1>3. Locals'
  <2>1. Len(store.inodes) \in Nat /\ Len(store'.inodes) \in Nat
    BY <1>1 DEF Disk
  <2> QED
    BY <1>1, <1>2, <2>1 DEF Locals, IsReader
<1>4. Snapshot'
  <2>1. ASSUME PathThere', reader.pc # "stat" PROVE Since' /\ Stat' # reader'.before
    <3>1. Since
      BY <1>2, <2>1 DEF Snapshot
    <3>2. /\ reader.before.size \in Nat /\ reader.before.mtime \in Nat
      BY DEF Locals
    <3>3. Stat.size \in Nat /\ Stat.mtime \in Nat /\ Stat'.size \in Nat /\ Stat'.mtime \in Nat
      <4>1. ASSUME Disk, PathThere PROVE Stat.size \in Nat /\ Stat.mtime \in Nat
        <5>1. store.path \in 1..Len(store.inodes)
          BY <4>1 DEF Disk, PathThere
        <5>2. store.inodes[store.path] \in [lines : Contents(harness), size : Nat, mtime : Nat]
          BY <4>1, <5>1, InSeq DEF Disk
        <5> QED
          BY <5>2 DEF Stat, Inode
      <4>2. ASSUME Disk', PathThere' PROVE Stat'.size \in Nat /\ Stat'.mtime \in Nat
        <5>1. store'.path \in 1..Len(store'.inodes)
          BY <4>2 DEF Disk, PathThere
        <5>2. store'.inodes[store'.path] \in [lines : Contents(harness'), size : Nat, mtime : Nat]
          BY <4>2, <5>1, InSeq DEF Disk
        <5> QED
          BY <5>2 DEF Stat, Inode
      <4> QED
        BY <1>1, <1>2, <2>1, <4>1, <4>2
    <3> QED
      BY <1>1, <1>2, <2>1, <3>1, <3>2, <3>3 DEF Since
  <2> QED
    BY <1>2, <2>1 DEF Snapshot
<1> QED
  BY <1>1, <1>3, <1>4

(***************************************************************************)
(* The reader.                                                             *)
(***************************************************************************)

\* A line moves from the buffer to what was read; a torn one is the file's last.
LEMMA Consumes ==
  ASSUME LineInv, harness \in LineHarnesses, reader.pc \in {"read", "index"}, reader.buffer # <<>>,
         NEW eof \in {"after", "indexed"}, UNCHANGED <<harness, store>>, Sees(NextLine),
         IsReader(reader)', reader'.position = reader.position + 1, reader'.buffer = Tail(reader.buffer),
         reader'.fd = reader.fd, reader'.before = reader.before,
         reader'.pc = IF NextLine.form = "torn" THEN eof ELSE reader.pc
  PROVE  LineInv'
<1>1. Disk /\ Locals /\ Snapshot
  BY DEF LineInv
<1> DEFINE line == NextLine
<1>2. /\ line \in Lines(harness) /\ line = reader.buffer[1] /\ Len(reader.buffer) \in Nat /\ Len(reader.buffer) > 0
      /\ reader'.buffer \in Seq(Lines(harness)) /\ Len(reader'.buffer) = Len(reader.buffer) - 1
      /\ \A i \in 1..(Len(reader.buffer) - 1) : reader'.buffer[i] = reader.buffer[i + 1]
  BY <1>1 DEF Locals, NextLine
<1>3. /\ seen' = [before |-> seen.before, lines |-> Append(seen.lines, line), passed |-> seen.passed,
                   touched |-> seen.touched, stood |-> seen.stood]
      /\ seen'.lines = Append(seen.lines, line) /\ seen'.before = seen.before
  <2>1. seen = [before |-> seen.before, lines |-> seen.lines, passed |-> seen.passed,
                touched |-> seen.touched, stood |-> seen.stood]
    BY <1>1 DEF Locals
  <2>2. seen' = [seen EXCEPT !.lines = Append(@, line)]
    BY DEF Sees
  <2> HIDE DEF line
  <2> QED
    BY <2>1, <2>2
<1> HIDE DEF line
<1>4. /\ seen'.lines \in Seq(Lines(harness)) /\ Len(seen'.lines) = Len(seen.lines) + 1 /\ Len(seen.lines) \in Nat
      /\ seen'.lines[Len(seen.lines) + 1] = line /\ \A i \in 1..Len(seen.lines) : seen'.lines[i] = seen.lines[i]
  BY <1>1, <1>2, <1>3 DEF Locals
<1>8. seen'.before = seen.before
  BY <1>3
<1>5. Disk'
  BY <1>1 DEF Disk
<1>6. Locals'
  <2>1. seen' = [before |-> seen'.before, lines |-> seen'.lines, passed |-> seen'.passed,
             touched |-> seen'.touched, stood |-> seen'.stood]
    BY <1>3
  <2>2. reader'.pc \in {"read", "index", "after", "indexed"}
    OBVIOUS
  <2>3. reader'.position \in Nat /\ reader'.buffer \in Seq(Lines(harness)) /\ reader.fd # 0
    BY <1>1, <1>2 DEF Locals
  <2> QED
    BY <1>1, <1>3, <1>4, <2>1, <2>2, <2>3 DEF Locals
<1>7. Snapshot'
  <2>1. ASSUME PathThere' PROVE Since' /\ (Stat' = reader'.before => Still')
    <3>1. PathThere /\ Since /\ (Stat = reader.before => Still) /\ Since' /\ Stat' = Stat
      BY <1>1, <2>1 DEF Snapshot, PathThere, Since, Stat, Inode
    <3>2. ASSUME Still PROVE Still'
      <4>1. /\ Inode(store.path).lines = seen.before /\ reader.fd = store.path /\ Follows
        BY <3>2 DEF Still
      <4>2. Follows'
        <5>1. /\ reader.position \in Nat /\ reader.position = Len(seen.lines) /\ Len(seen.before) \in Nat
              /\ reader.position + Len(reader.buffer) <= Len(seen.before)
              /\ \A i \in 1..reader.position : seen.lines[i] = seen.before[i]
              /\ \A i \in 1..Len(reader.buffer) : reader.buffer[i] = seen.before[reader.position + i]
          BY <1>1, <4>1 DEF Follows, Locals, Contents
        <5>2. /\ reader'.position = Len(seen'.lines)
              /\ reader'.position + Len(reader'.buffer) <= Len(seen'.before)
          <6>1. reader'.position = reader.position + 1
            OBVIOUS
          <6>2. seen'.before = seen.before /\ Len(reader'.buffer) = Len(reader.buffer) - 1
                /\ Len(reader.buffer) \in Nat /\ Len(seen'.lines) = Len(seen.lines) + 1
            BY <1>2, <1>4, <1>8
          <6>3. reader.position \in Nat /\ Len(seen.before) \in Nat /\ reader.position = Len(seen.lines)
                /\ reader.position + Len(reader.buffer) <= Len(seen.before)
            BY <5>1
          <6> DEFINE p == reader.position
                     q == reader'.position
                     b == Len(reader.buffer)
                     c == Len(reader'.buffer)
                     n == Len(seen.before)
                     m == Len(seen.lines)
                     k == Len(seen'.lines)
          <6>4. /\ p \in Nat /\ n \in Nat /\ p = m /\ p + b <= n /\ q = p + 1 /\ c = b - 1 /\ b \in Nat /\ k = m + 1
                /\ Len(seen'.before) = n
            BY <6>1, <6>2, <6>3
          <6> HIDE DEF p, q, b, c, n, m, k
          <6>5. q = k /\ q + c <= n
            BY ONLY <6>4
          <6> QED
            BY ONLY <6>4, <6>5 DEF q, k, c, n
        <5>3. line = seen.before[reader.position + 1]
          BY <1>2, <5>1
        <5>4. \A i \in 1..reader'.position : seen'.lines[i] = seen'.before[i]
          BY <1>8, <1>4, <5>1, <5>3
        <5>5. \A i \in 1..Len(reader'.buffer) : reader'.buffer[i] = seen'.before[reader'.position + i]
          BY <1>2, <1>8, <5>1
        <5> QED
          BY <5>2, <5>4, <5>5 DEF Follows
      <4>3. ASSUME line.form = "torn" PROVE seen'.lines = seen'.before
        <5>1. /\ seen.before \in Seq(Lines(harness)) /\ Len(seen.before) \in Nat
              /\ \A i \in 1..Len(seen.before) : seen.before[i].form = "torn" => i = Len(seen.before)
          BY <1>1 DEF Locals, Contents
        <5>2. /\ reader.position + 1 \in 1..Len(seen.before) /\ seen.before[reader.position + 1] = line
          <6>1. reader.position \in Nat /\ reader.position + Len(reader.buffer) <= Len(seen.before)
                /\ reader.buffer[1] = seen.before[reader.position + 1]
            <7>1. reader.position \in Nat /\ Len(reader.buffer) \in Nat /\ Len(reader.buffer) > 0
              BY <1>1, <1>2 DEF Locals
            <7>2. /\ reader.position + Len(reader.buffer) <= Len(seen.before)
                  /\ \A i \in 1..Len(reader.buffer) : reader.buffer[i] = seen.before[reader.position + i]
              BY <4>1 DEF Follows
            <7> QED
              BY ONLY <7>1, <7>2
          <6> QED
            BY ONLY <1>2, <5>1, <6>1
        <5>3. reader.position + 1 = Len(seen.before)
          BY <4>3, <5>1, <5>2
        <5>4. Len(seen'.lines) = Len(seen'.before) /\ \A i \in 1..Len(seen'.lines) : seen'.lines[i] = seen'.before[i]
          <6>1. reader'.position = Len(seen'.lines) /\ \A i \in 1..reader'.position : seen'.lines[i] = seen'.before[i]
            BY <4>2 DEF Follows
          <6> QED
            BY <1>8, <5>3, <6>1
        <5>6. seen'.lines \in Seq(Lines(harness)) /\ seen'.before \in Seq(Lines(harness))
          BY <1>8, <1>4, <5>1
        <5> QED
          BY ONLY <5>4, <5>6, SeqEqual
      <4>4. /\ Inode(store.path)' = Inode(store.path) /\ store'.path = store.path
        BY DEF Inode
      <4>5. reader'.pc # "open" /\ (reader'.pc \in {"indexed", "emit", "after"} => line.form = "torn")
        BY DEF line
      <4> QED
        BY <1>8, <4>1, <4>2, <4>3, <4>4, <4>5 DEF Still
    <3> QED
      BY <3>1, <3>2
  <2>2. reader'.pc \notin {"stat", "done"}
    OBVIOUS
  <2> QED
    BY <2>1, <2>2 DEF Snapshot
<1> QED
  BY <1>5, <1>6, <1>7 DEF LineInv

\* What an inode of the store holds.
LEMMA InodesAreTyped ==
  ASSUME Disk, NEW i \in 1..Len(store.inodes)
  PROVE  Inode(i) \in [lines : Contents(harness), size : Nat, mtime : Nat]
<1>1. store.inodes \in Seq([lines : Contents(harness), size : Nat, mtime : Nat])
  BY DEF Disk
<1> QED
  BY <1>1, InSeq DEF Inode

\* A failed Parse claims nothing.
LEMMA FailureKeeps ==
  ASSUME LineInv, harness \in LineHarnesses, NEW code, code # "none", Fail(code), UNCHANGED <<harness, store, seen>>
  PROVE  LineInv'
<1>1. Disk /\ Locals /\ Snapshot
  BY DEF LineInv
<1>2. /\ IsReader(reader)' /\ reader'.pc = "done" /\ reader'.error = code /\ reader'.before = reader.before
      /\ reader'.fd = reader.fd /\ reader'.position = reader.position /\ reader'.buffer = reader.buffer
  <2>1. IsReader(reader)
    BY <1>1 DEF Locals
  <2> QED
    BY <2>1 DEF Fail, IsReader, Fields
<1>3. Disk'
  BY <1>1 DEF Disk
<1>4. Locals'
  BY <1>1, <1>2 DEF Locals
<1>5. Snapshot'
  BY <1>2 DEF Snapshot
<1> QED
  BY <1>3, <1>4, <1>5 DEF LineInv

\* From the first stat on, what is there is what was there.
LEMMA StatsBeforeKeeps == LineInv /\ StatsBefore => LineInv'
<1> SUFFICES ASSUME LineInv, StatsBefore PROVE LineInv'
  OBVIOUS
<1>1. Disk /\ Locals /\ Snapshot /\ harness \in LineHarnesses /\ UNCHANGED <<harness, store>> /\ PathThere
      /\ reader.pc = "stat"
  BY DEF LineInv, StatsBefore, ReadsLines
<1>2. /\ IsReader(reader)' /\ reader'.pc = "open" /\ reader'.before = Stat
      /\ reader'.fd = reader.fd /\ reader'.position = reader.position /\ reader'.buffer = reader.buffer
  <2>1. IsReader(reader)
    BY <1>1 DEF Locals
  <2> QED
    BY <2>1 DEF StatsBefore, IsReader, Fields
<1>3. /\ seen'.before = Inode(store.path).lines /\ seen'.lines = seen.lines
      /\ seen' = [before |-> seen'.before, lines |-> seen'.lines, passed |-> seen'.passed,
                  touched |-> seen'.touched, stood |-> seen'.stood]
  <2>1. seen = [before |-> seen.before, lines |-> seen.lines, passed |-> seen.passed,
                touched |-> seen.touched, stood |-> seen.stood]
    BY <1>1 DEF Locals
  <2>2. seen' = [seen EXCEPT !.before = Inode(store.path).lines]
    BY DEF StatsBefore
  <2> QED
    BY <2>1, <2>2
<1>4. Inode(store.path) \in [lines : Contents(harness), size : Nat, mtime : Nat]
  <2>1. store.path \in 1..Len(store.inodes)
    BY <1>1 DEF Disk, PathThere
  <2> QED
    BY <1>1, <2>1, InodesAreTyped
<1>5. Disk'
  BY <1>1 DEF Disk
<1>6. Locals'
  BY <1>1, <1>2, <1>3, <1>4 DEF Locals, Stat
<1>7. Snapshot'
  <2>1. seen.lines = <<>> /\ reader.position = 0 /\ reader.buffer = <<>>
    BY <1>1 DEF Snapshot
  <2>2. Len(seen'.before) \in Nat
    BY <1>3, <1>4 DEF Contents
  <2>3. Follows'
    BY <1>2, <1>3, <2>1, <2>2 DEF Follows
  <2>4. Still'
    BY <1>1, <1>2, <1>3, <2>3 DEF Still, Inode
  <2>5. Since'
    BY <1>1, <1>2, <1>4 DEF Since, Stat, Inode
  <2> QED
    BY <1>2, <2>4, <2>5 DEF Snapshot
<1> QED
  BY <1>5, <1>6, <1>7 DEF LineInv

\* The file opened is the one that was looked at, if nothing was written since.
LEMMA OpensKeeps == LineInv /\ Opens => LineInv'
<1> SUFFICES ASSUME LineInv, Opens PROVE LineInv'
  OBVIOUS
<1>1. Disk /\ Locals /\ Snapshot /\ harness \in LineHarnesses /\ UNCHANGED <<harness, store, seen>> /\ PathThere
      /\ reader.pc = "open"
  BY DEF LineInv, Opens, ReadsLines
<1>2. /\ IsReader(reader)' /\ reader'.pc \in {"index", "read"} /\ reader'.before = reader.before
      /\ reader'.fd = store.path /\ reader'.position = reader.position /\ reader'.buffer = reader.buffer
  <2>1. IsReader(reader)
    BY <1>1 DEF Locals
  <2> QED
    BY <2>1 DEF Opens, IsReader, Fields
<1>3. store.path \in 1..Len(store.inodes)
  BY <1>1 DEF Disk, PathThere
<1>4. Disk'
  BY <1>1 DEF Disk
<1>5. Locals'
  <2>1. reader'.fd \in 0..Len(store.inodes) /\ reader'.fd # 0
    BY <1>1, <1>2, <1>3 DEF Disk, PathThere
  <2> QED
    BY <1>1, <1>2, <2>1 DEF Locals
<1>6. Snapshot'
  <2>1. Stat' = Stat /\ (Since <=> Since') /\ PathThere'
    BY <1>1, <1>2 DEF Stat, Inode, Since, PathThere
  <2>2. Still => Still'
    BY <1>1, <1>2 DEF Still, Follows, Inode
  <2> QED
    BY <1>1, <1>2, <2>1, <2>2 DEF Snapshot
<1> QED
  BY <1>4, <1>5, <1>6 DEF LineInv

\* What the descriptor has left to give.
LEMMA RemainingIsTheRest ==
  ASSUME LineInv, harness \in LineHarnesses, reader.pc \in {"read", "index"}, reader.buffer = <<>>
  PROVE  LET lines == Inode(reader.fd).lines IN
         /\ lines \in Seq(Lines(harness)) /\ Remaining \in Seq(Lines(harness))
         /\ Len(Remaining) = (IF reader.position < Len(lines) THEN Len(lines) - reader.position ELSE 0)
         /\ \A i \in 1..Len(Remaining) : Remaining[i] = lines[reader.position + i]
<1> DEFINE lines == Inode(reader.fd).lines
<1>1. Disk /\ Locals
  BY DEF LineInv
<1>2. lines \in Seq(Lines(harness))
  <2>1. reader.fd \in 1..Len(store.inodes)
    BY <1>1 DEF Disk, Locals
  <2> QED
    BY <1>1, <2>1, InodesAreTyped DEF Contents
<1>3. reader.position \in Nat
  BY <1>1 DEF Locals
<1> HIDE DEF lines
<1>4. Remaining = SubSeq(lines, reader.position + 1, Len(lines))
  <2>1. Remaining = SubSeq(lines, reader.position + Len(reader.buffer) + 1, Len(lines))
    BY DEF Remaining, lines
  <2>2. reader.position + Len(reader.buffer) + 1 = reader.position + 1
    BY <1>3
  <2> QED
    BY <2>1, <2>2
<1>5. Len(lines) \in Nat
  BY <1>2
<1>6. /\ Remaining \in Seq(Lines(harness))
      /\ Len(Remaining) = (IF reader.position < Len(lines) THEN Len(lines) - reader.position ELSE 0)
      /\ \A i \in 1..Len(Remaining) : Remaining[i] = lines[reader.position + i]
  <2>1. /\ SubSeq(lines, reader.position + 1, Len(lines)) \in Seq(Lines(harness))
        /\ Len(SubSeq(lines, reader.position + 1, Len(lines))) =
             (IF reader.position < Len(lines) THEN Len(lines) - reader.position ELSE 0)
        /\ \A i \in 1..Len(SubSeq(lines, reader.position + 1, Len(lines))) :
             SubSeq(lines, reader.position + 1, Len(lines))[i] = lines[reader.position + i]
    BY ONLY <1>2, <1>3, <1>5, SMTT(30)
  <2> QED
    BY ONLY <1>4, <2>1
<1> QED
  BY <1>2, <1>6 DEF lines

\* The buffer is filled with what follows the lines that were read.
LEMMA FillsKeeps == LineInv /\ Fills => LineInv'
<1> SUFFICES ASSUME LineInv, Fills PROVE LineInv'
  OBVIOUS
<1>1. Disk /\ Locals /\ Snapshot /\ harness \in LineHarnesses /\ UNCHANGED <<harness, store, seen>>
      /\ reader.pc \in {"read", "index"} /\ reader.buffer = <<>>
  BY DEF LineInv, Fills, ReadsLines
<1> DEFINE lines == Inode(reader.fd).lines
<1>2. /\ lines \in Seq(Lines(harness)) /\ Remaining \in Seq(Lines(harness))
      /\ Len(Remaining) = (IF reader.position < Len(lines) THEN Len(lines) - reader.position ELSE 0)
      /\ \A i \in 1..Len(Remaining) : Remaining[i] = lines[reader.position + i]
  BY <1>1, RemainingIsTheRest
<1>3. PICK n \in 1..Len(Remaining) : reader' = [reader EXCEPT !.buffer = SubSeq(Remaining, 1, n)]
  <2>1. PICK n \in DOMAIN Remaining : reader' = [reader EXCEPT !.buffer = SubSeq(Remaining, 1, n)]
    BY DEF Fills
  <2>2. DOMAIN Remaining = 1..Len(Remaining)
    BY <1>2
  <2> QED
    BY <2>1, <2>2
<1>4. /\ IsReader(reader)' /\ reader'.pc = reader.pc /\ reader'.before = reader.before
      /\ reader'.fd = reader.fd /\ reader'.position = reader.position /\ reader'.buffer = SubSeq(Remaining, 1, n)
  <2>1. IsReader(reader)
    BY <1>1 DEF Locals
  <2> QED
    BY <1>3, <2>1 DEF IsReader, Fields
<1> HIDE DEF lines
<1>5. reader.position \in Nat /\ Len(lines) \in Nat /\ Len(Remaining) \in Nat
  BY <1>1, <1>2 DEF Locals
<1>6. /\ reader'.buffer \in Seq(Lines(harness)) /\ Len(reader'.buffer) = n
      /\ \A i \in 1..n : reader'.buffer[i] = lines[reader.position + i]
      /\ reader.position + n <= Len(lines)
  <2>1. /\ SubSeq(Remaining, 1, n) \in Seq(Lines(harness)) /\ Len(SubSeq(Remaining, 1, n)) = n
        /\ \A i \in 1..n : SubSeq(Remaining, 1, n)[i] = Remaining[i]
    BY <1>2, <1>5
  <2>2. reader.position < Len(lines) /\ n <= Len(lines) - reader.position /\ n \in Nat
    BY <1>2, <1>5
  <2>3. \A i \in 1..n : SubSeq(Remaining, 1, n)[i] = lines[reader.position + i]
    BY <1>2, <1>5, <2>1
  <2> QED
    BY <1>4, <1>5, <2>1, <2>2, <2>3
<1>7. Disk'
  BY <1>1 DEF Disk
<1>8. Locals'
  BY <1>1, <1>4, <1>6 DEF Locals
<1>9. Snapshot'
  <2>1. Stat' = Stat /\ (Since <=> Since') /\ (PathThere <=> PathThere')
    BY <1>1, <1>4 DEF Stat, Inode, Since, PathThere
  <2>2. ASSUME Still PROVE Still'
    <3>1. lines = seen.before /\ reader.fd = store.path /\ Follows
      BY <1>1, <2>2 DEF Still, lines
    <3>2. /\ reader.position = Len(seen.lines) /\ \A i \in 1..reader.position : seen.lines[i] = seen.before[i]
      BY <3>1 DEF Follows
    <3>3. Follows'
      BY <1>1, <1>4, <1>6, <3>1, <3>2 DEF Follows
    <3> QED
      BY <1>1, <1>4, <2>2, <3>3 DEF Still, Inode
  <2> QED
    BY <1>1, <1>4, <2>1, <2>2 DEF Snapshot
<1> QED
  BY <1>7, <1>8, <1>9 DEF LineInv

\* The second stat: equal means that nothing was written in between.
LEMMA StatsAfterKeeps == LineInv /\ StatsAfter => LineInv'
<1> SUFFICES ASSUME LineInv, StatsAfter PROVE LineInv'
  OBVIOUS
<1>1. Disk /\ Locals /\ Snapshot /\ harness \in LineHarnesses /\ UNCHANGED <<harness, store>>
      /\ reader.pc = "after"
  BY DEF LineInv, StatsAfter, ReadsLines
<1>2. /\ IsReader(reader)' /\ reader'.pc = "done" /\ reader'.before = reader.before
      /\ reader'.fd = reader.fd /\ reader'.position = reader.position /\ reader'.buffer = reader.buffer
      /\ PathThere /\ Stat # reader.before => reader'.changed
  <2>1. IsReader(reader)
    BY <1>1 DEF Locals
  <2>2. CASE PathThere /\ Stat # reader.before
    <3>1. reader' = [reader EXCEPT !.pc = "done", !.changed = TRUE, !.partial = TRUE]
      BY <2>2 DEF StatsAfter
    <3> QED
      BY <2>1, <3>1 DEF IsReader, Fields
  <2>3. CASE ~(PathThere /\ Stat # reader.before)
    <3>1. reader' = [reader EXCEPT !.pc = "done"]
      BY <2>3 DEF StatsAfter
    <3> QED
      BY <2>1, <2>3, <3>1 DEF IsReader, Fields
  <2> QED
    BY <2>2, <2>3
<1>3. /\ seen'.before = seen.before /\ seen'.lines = seen.lines /\ seen'.stood = PathThere
      /\ seen' = [before |-> seen'.before, lines |-> seen'.lines, passed |-> seen'.passed,
                  touched |-> seen'.touched, stood |-> seen'.stood]
  <2>1. seen = [before |-> seen.before, lines |-> seen.lines, passed |-> seen.passed,
                touched |-> seen.touched, stood |-> seen.stood]
    BY <1>1 DEF Locals
  <2>2. seen' = [seen EXCEPT !.stood = PathThere]
    BY DEF StatsAfter
  <2> QED
    BY <2>1, <2>2
<1>4. Disk'
  BY <1>1 DEF Disk
<1>5. Locals'
  BY <1>1, <1>2, <1>3 DEF Locals
<1>6. Snapshot'
  <2>1. ASSUME PathThere, ~reader'.changed PROVE seen.lines = seen.before
    <3>1. Stat = reader.before
      BY <1>2, <2>1
    <3>2. Still
      BY <1>1, <2>1, <3>1 DEF Snapshot
    <3> QED
      BY <1>1, <3>2 DEF Still
  <2> QED
    BY <1>2, <1>3, <2>1 DEF Snapshot
<1> QED
  BY <1>4, <1>5, <1>6 DEF LineInv

\* Where nothing remains, all was read.
LEMMA EndKeeps ==
  ASSUME LineInv, harness \in LineHarnesses, UNCHANGED <<harness, store, seen>>,
         \/ reader.pc \in {"read", "index"} /\ reader.buffer = <<>> /\ Remaining = <<>>
         \/ reader.pc \in {"indexed", "emit"},
         IsReader(reader)', reader'.pc \in {"emit", "after"}, reader'.before = reader.before,
         reader'.fd = reader.fd, reader'.position = reader.position, reader'.buffer = reader.buffer
  PROVE  LineInv'
<1>1. Disk /\ Locals /\ Snapshot
  BY DEF LineInv
<1>2. Disk'
  BY <1>1 DEF Disk
<1>3. Locals'
  BY <1>1 DEF Locals
<1>4. Snapshot'
  <2>1. Stat' = Stat /\ (Since <=> Since') /\ (PathThere <=> PathThere') /\ Inode(store.path)' = Inode(store.path)
    BY <1>1 DEF Stat, Inode, Since, PathThere
  <2>2. ASSUME Still PROVE seen.lines = seen.before
    <3>1. CASE reader.pc \in {"indexed", "emit"}
      BY <2>2, <3>1 DEF Still
    <3>2. CASE reader.pc \in {"read", "index"} /\ reader.buffer = <<>> /\ Remaining = <<>>
      <4>1. Follows /\ Inode(reader.fd).lines = seen.before
        BY <2>2, <3>2 DEF Still
      <4>2. Len(Remaining) = (IF reader.position < Len(seen.before) THEN Len(seen.before) - reader.position ELSE 0)
        BY <3>2, <4>1, RemainingIsTheRest
      <4>3. seen.lines \in Seq(Lines(harness)) /\ seen.before \in Seq(Lines(harness)) /\ reader.position \in Nat
        BY <1>1 DEF Locals, Contents
      <4>4. reader.position = Len(seen.lines) /\ reader.position <= Len(seen.before)
            /\ \A i \in 1..reader.position : seen.lines[i] = seen.before[i]
        BY <3>2, <4>1, <4>3 DEF Follows
      <4>5. reader.position = Len(seen.before)
        <5>1. Len(Remaining) = 0 /\ Len(seen.before) \in Nat
          BY <3>2, <4>3
        <5> QED
          BY ONLY <4>2, <4>3, <4>4, <5>1
      <4>6. Len(seen.lines) = Len(seen.before) /\ \A i \in 1..Len(seen.lines) : seen.lines[i] = seen.before[i]
        BY <4>4, <4>5
      <4> QED
        BY ONLY <4>3, <4>6, SeqEqual
    <3> QED
      BY <3>1, <3>2
  <2>3. Still => Still'
    BY <2>1, <2>2 DEF Still
  <2>4. reader.pc \notin {"stat", "done"} /\ reader'.pc \notin {"stat", "done"}
    OBVIOUS
  <2> QED
    BY <1>1, <2>1, <2>3, <2>4 DEF Snapshot
<1> QED
  BY <1>2, <1>3, <1>4 DEF LineInv

\* Pi's second pass does not touch what the first one read.
LEMMA EmittingKeeps ==
  ASSUME LineInv, harness \in LineHarnesses, UNCHANGED <<harness, store>>, NEW passed,
         seen' = [seen EXCEPT !.passed = passed],
         reader.pc = "emit", IsReader(reader)', reader'.pc = "emit", reader'.before = reader.before,
         reader'.fd = reader.fd, reader'.position = reader.position, reader'.buffer = reader.buffer
  PROVE  LineInv'
<1>1. Disk /\ Locals /\ Snapshot
  BY DEF LineInv
<1>2. /\ seen'.before = seen.before /\ seen'.lines = seen.lines
      /\ seen' = [before |-> seen'.before, lines |-> seen'.lines, passed |-> seen'.passed,
                  touched |-> seen'.touched, stood |-> seen'.stood]
  <2>1. seen = [before |-> seen.before, lines |-> seen.lines, passed |-> seen.passed,
                touched |-> seen.touched, stood |-> seen.stood]
    BY <1>1 DEF Locals
  <2> QED
    BY <2>1
<1>3. Disk'
  BY <1>1 DEF Disk
<1>4. Locals'
  BY <1>1, <1>2 DEF Locals
<1>5. Snapshot'
  <2>1. Stat' = Stat /\ (Since <=> Since') /\ (PathThere <=> PathThere') /\ Inode(store.path)' = Inode(store.path)
    BY <1>1 DEF Stat, Inode, Since, PathThere
  <2>2. Still => Still'
    BY <1>2, <2>1 DEF Still
  <2> QED
    BY <1>1, <2>1, <2>2 DEF Snapshot
<1> QED
  BY <1>3, <1>4, <1>5 DEF LineInv

\* What Consumed does to the reader's variables.
LEMMA ConsumedLine ==
  ASSUME IsReader(reader), NEW line, NEW lost, NEW eof, NEW r, r = Consumed(line, lost, eof)
  PROVE  /\ IsReader(r) /\ r.position = reader.position + 1 /\ r.buffer = Tail(reader.buffer)
         /\ r.fd = reader.fd /\ r.before = reader.before
         /\ r.pc = IF line.form = "torn" THEN eof ELSE reader.pc
  BY DEF Consumed, Marked, IsReader, Fields

\* Every step keeps the invariant.
LEMMA LineStep == LineInv /\ [Next]_vars => LineInv'
<1> SUFFICES ASSUME LineInv, [Next]_vars PROVE LineInv'
  OBVIOUS
<1>0. harness' = harness
  <2>1. CASE Next
    BY <2>1 DEF Next, Parses, Discovers, Fails, Harness,
       StatsBefore, Opens, FindsNothing, Fills, StatsAfter, ClaudeReadsLine, CodexReadsLine, EndOfFile,
       PiIndexesLine, PiAnalyzes, PiEmits, PiEnds, LegacyStats, LegacyReadsSession, LegacyListsMessages,
       LegacyReadsMessage, LegacyListsParts, LegacyReadsPart, LegacyStatsAfter, SQLiteBegins,
       SQLiteReadsSession, SQLiteReadsRow, SQLiteEnds, WalkDetects, WalkOpensBase, WalkEntersDirectory,
       WalkVisits, WalkEndsBase, SinkRefuses, ReadFails, NoticesCancel, WalkFails, HarnessAppends,
       HarnessCompletes, HarnessRewrites, HarnessReplaces, HarnessRemoves, LegacyHarnessWrites,
       SQLiteHarnessCommits, WalkHarnessCreates, WalkHarnessRemoves, Cancel
  <2> QED
    BY <2>1 DEF vars
<1> SUFFICES ASSUME harness \in LineHarnesses PROVE LineInv'
  BY <1>0 DEF LineInv
<1>1. Disk /\ Locals /\ IsReader(reader)
  BY DEF LineInv, Locals
<1>2. CASE StatsBefore
  BY <1>2, StatsBeforeKeeps
<1>3. CASE Opens
  BY <1>3, OpensKeeps
<1>4. CASE FindsNothing \/ SinkRefuses \/ ReadFails \/ NoticesCancel
  <2>1. PICK code \in {"read_error", "normalization_error", "cancelled"} :
          Fail(code) /\ UNCHANGED <<harness, store, seen>>
    BY <1>4 DEF FindsNothing, SinkRefuses, ReadFails, NoticesCancel
  <2> QED
    BY <2>1, FailureKeeps
<1>5. CASE Fills
  BY <1>5, FillsKeeps
<1>6. CASE StatsAfter
  BY <1>6, StatsAfterKeeps
<1>7. CASE ClaudeReadsLine
  <2>1. PICK lost : reader' = Consumed(NextLine, lost, "after")
    BY <1>7 DEF ClaudeReadsLine
  <2>2. UNCHANGED <<harness, store>> /\ Sees(NextLine) /\ reader.pc = "read" /\ reader.buffer # <<>>
    BY <1>7 DEF ClaudeReadsLine, Turn
  <2>3. /\ IsReader(reader)' /\ reader'.position = reader.position + 1 /\ reader'.buffer = Tail(reader.buffer)
        /\ reader'.fd = reader.fd /\ reader'.before = reader.before
        /\ reader'.pc = IF NextLine.form = "torn" THEN "after" ELSE reader.pc
    BY <1>1, <2>1, ConsumedLine DEF IsReader
  <2> QED
    BY <2>2, <2>3, Consumes
<1>8. CASE CodexReadsLine
  <2>1. PICK lost, commands : reader' = [Consumed(NextLine, lost, "after") EXCEPT !.commands = commands]
    BY <1>8 DEF CodexReadsLine
  <2>2. UNCHANGED <<harness, store>> /\ Sees(NextLine) /\ reader.pc = "read" /\ reader.buffer # <<>>
    BY <1>8 DEF CodexReadsLine, Turn
  <2>3. /\ IsReader(reader)' /\ reader'.position = reader.position + 1 /\ reader'.buffer = Tail(reader.buffer)
        /\ reader'.fd = reader.fd /\ reader'.before = reader.before
        /\ reader'.pc = IF NextLine.form = "torn" THEN "after" ELSE reader.pc
    <3> DEFINE r == Consumed(NextLine, lost, "after")
    <3>1. /\ IsReader(r) /\ r.position = reader.position + 1 /\ r.buffer = Tail(reader.buffer)
          /\ r.fd = reader.fd /\ r.before = reader.before
          /\ r.pc = IF NextLine.form = "torn" THEN "after" ELSE reader.pc
      BY <1>1, ConsumedLine
    <3>2. reader' = [r EXCEPT !.commands = commands]
      BY <2>1
    <3> HIDE DEF r
    <3> QED
      BY <3>1, <3>2 DEF IsReader, Fields
  <2> QED
    BY <2>2, <2>3, Consumes
<1>9. CASE EndOfFile
  <2>1. IsReader(reader)' /\ reader'.pc = "after" /\ reader'.before = reader.before
        /\ reader'.fd = reader.fd /\ reader'.position = reader.position /\ reader'.buffer = reader.buffer
    BY <1>1, <1>9 DEF EndOfFile, IsReader, Fields
  <2>2. UNCHANGED <<harness, store, seen>> /\ reader.pc = "read" /\ reader.buffer = <<>> /\ Remaining = <<>>
    BY <1>9 DEF EndOfFile, Turn
  <2> QED
    BY <2>1, <2>2, EndKeeps
<1>10. CASE PiIndexesLine
  <2>1. PICK lost, index, headless :
          reader' = [Consumed(NextLine, lost, "indexed") EXCEPT !.index = index, !.partial = @ \/ headless]
    BY <1>10 DEF PiIndexesLine
  <2>2. UNCHANGED <<harness, store>> /\ Sees(NextLine) /\ reader.pc = "index" /\ reader.buffer # <<>>
    BY <1>10 DEF PiIndexesLine, Turn
  <2>3. /\ IsReader(reader)' /\ reader'.position = reader.position + 1 /\ reader'.buffer = Tail(reader.buffer)
        /\ reader'.fd = reader.fd /\ reader'.before = reader.before
        /\ reader'.pc = IF NextLine.form = "torn" THEN "indexed" ELSE reader.pc
    <3> DEFINE r == Consumed(NextLine, lost, "indexed")
    <3>1. /\ IsReader(r) /\ r.position = reader.position + 1 /\ r.buffer = Tail(reader.buffer)
          /\ r.fd = reader.fd /\ r.before = reader.before
          /\ r.pc = IF NextLine.form = "torn" THEN "indexed" ELSE reader.pc
      BY <1>1, ConsumedLine
    <3>2. PICK partial : reader' = [r EXCEPT !.index = index, !.partial = partial]
      BY <2>1
    <3> HIDE DEF r
    <3> QED
      BY <3>1, <3>2 DEF IsReader, Fields
  <2> QED
    BY <2>2, <2>3, Consumes
<1>11. CASE PiAnalyzes
  <2>1. PICK order, active, partial :
          reader' = [reader EXCEPT !.pc = "emit", !.order = order, !.active = active, !.partial = partial]
    BY <1>11 DEF PiAnalyzes
  <2>2. IsReader(reader)' /\ reader'.pc = "emit" /\ reader'.before = reader.before
        /\ reader'.fd = reader.fd /\ reader'.position = reader.position /\ reader'.buffer = reader.buffer
    BY <1>1, <2>1 DEF IsReader, Fields
  <2>3. /\ UNCHANGED <<harness, store, seen>>
        /\ \/ reader.pc = "indexed"
           \/ reader.pc = "index" /\ reader.buffer = <<>> /\ Remaining = <<>>
    BY <1>11 DEF PiAnalyzes, Turn
  <2> QED
    BY <2>2, <2>3, EndKeeps
<1>12. CASE PiEmits
  <2>1. PICK passed : seen' = [seen EXCEPT !.passed = passed]
    BY <1>12 DEF PiEmits
  <2>2. PICK lost : reader' = [Marked(lost, IF lost THEN 1 ELSE 0) EXCEPT !.order = Tail(@)]
    BY <1>12 DEF PiEmits
  <2>3. UNCHANGED <<harness, store>> /\ reader.pc = "emit"
    BY <1>12 DEF PiEmits, Turn
  <2>4. IsReader(reader)' /\ reader'.pc = "emit" /\ reader'.before = reader.before
        /\ reader'.fd = reader.fd /\ reader'.position = reader.position /\ reader'.buffer = reader.buffer
    BY <1>1, <2>2, <2>3 DEF Marked, IsReader, Fields
  <2> QED
    BY <2>1, <2>3, <2>4, EmittingKeeps
<1>13. CASE PiEnds
  <2>1. IsReader(reader)' /\ reader'.pc = "after" /\ reader'.before = reader.before
        /\ reader'.fd = reader.fd /\ reader'.position = reader.position /\ reader'.buffer = reader.buffer
    BY <1>1, <1>13 DEF PiEnds, IsReader, Fields
  <2>2. UNCHANGED <<harness, store, seen>> /\ reader.pc = "emit"
    BY <1>13 DEF PiEnds
  <2> QED
    BY <2>1, <2>2, EndKeeps
<1>14. CASE Writes
  BY <1>14, WritesKeep
<1>15. CASE UNCHANGED <<harness, store, reader, seen>>
  BY <1>15 DEF LineInv, Disk, Locals, IsReader, Snapshot, Still, Follows, Since, Stat, Inode, PathThere
<1>16. CASE Cancel \/ UNCHANGED vars
  BY <1>15, <1>16 DEF Cancel, vars
<1>17. CASE \/ LegacyStats \/ LegacyReadsSession \/ LegacyListsMessages
            \/ LegacyReadsMessage \/ LegacyListsParts \/ LegacyReadsPart \/ LegacyStatsAfter
            \/ SQLiteBegins \/ SQLiteReadsSession \/ SQLiteReadsRow \/ SQLiteEnds
            \/ Discovers \/ WalkFails
            \/ LegacyHarnessWrites \/ SQLiteHarnessCommits \/ WalkHarnessCreates \/ WalkHarnessRemoves
  BY <1>17 DEF LegacyStats, LegacyReadsSession, LegacyListsMessages, LegacyReadsMessage, LegacyListsParts,
     LegacyReadsPart, LegacyStatsAfter, SQLiteBegins, SQLiteReadsSession, SQLiteReadsRow, SQLiteEnds,
     Discovers, WalkDetects, WalkOpensBase, WalkEntersDirectory, WalkVisits, WalkEndsBase, WalkFails,
     LegacyHarnessWrites, SQLiteHarnessCommits, WalkHarnessCreates, WalkHarnessRemoves, Turn, Walking
<1> QED
  BY <1>2, <1>3, <1>4, <1>5, <1>6, <1>7, <1>8, <1>9, <1>10, <1>11, <1>12, <1>13, <1>14, <1>16, <1>17
     DEF Next, Parses, Fails, Harness, Writes

\* A Parse that finds size and time of a file as they were has read the file as it
\* was, whatever the harness did in the meantime (StatsBefore and StatsAfter:
\* the os.Stat at either end of Parse), for any lines, writes and order of reads.
THEOREM UnchangedFilesAreSnapshots == Spec => []UnchangedIsSnapshot
<1>1. LineInv => UnchangedIsSnapshot
  BY DEF LineInv, Snapshot, UnchangedIsSnapshot, Returned, Done, Running
<1>2. Spec => []LineInv
  BY LineInit, LineStep, PTL DEF Spec
<1> QED
  BY <1>1, <1>2, PTL

(***************************************************************************)
(* Probe.                                                                  *)
(***************************************************************************)

\* The least of some numbers stays the least when greater ones join them.
LEMMA FirstStays ==
  ASSUME NEW old \in SUBSET Nat, NEW new \in SUBSET Nat, old # {}, old \subseteq new,
         \A j \in new \ old : \A i \in old : i < j
  PROVE  /\ (CHOOSE i \in old : \A j \in old : i <= j) \in old
         /\ (CHOOSE i \in new : \A j \in new : i <= j) = (CHOOSE i \in old : \A j \in old : i <= j)
<1>1. PICK n \in old : \A j \in old : n <= j
  BY LeastNumber
<1>2. \A j \in new : n <= j
  <2>1. \A j \in new \ old : n < j /\ n \in Nat /\ j \in Nat
    OBVIOUS
  <2> QED
    BY <1>1, <2>1
<1>3. \A m \in old : (\A j \in old : m <= j) => m = n
  BY <1>1
<1>4. \A m \in new : (\A j \in new : m <= j) => m = n
  BY <1>1, <1>2
<1>5. (CHOOSE i \in old : \A j \in old : i <= j) = n
  BY ONLY <1>1, <1>3
<1>6. (CHOOSE i \in new : \A j \in new : i <= j) = n
  BY ONLY <1>1, <1>2, <1>4, old \subseteq new
<1> QED
  BY <1>5, <1>6

\* A file that only grew: a torn last line may have become whole.
Grows(lines, more) ==
  /\ Len(lines) <= Len(more)
  /\ \A i \in 1..Len(lines) :
       \/ more[i] = lines[i]
       \/ /\ i = Len(lines) /\ lines[i].form = "torn"
          /\ more[i].size = lines[i].size /\ more[i].rec = lines[i].rec

\* Of the lines that were there before, the same ones tell the session.
TellTheSame(told, tell, lines, more) ==
  /\ \A i \in told : i \in 1..Len(lines) /\ lines[i].form # "torn" /\ i \in tell
  /\ \A i \in tell : i \in 1..Len(lines) /\ more[i] = lines[i] => i \in told

\* A scan that was decided is decided by the same line.
LEMMA ScanStays ==
  ASSUME NEW h, NEW lines \in Seq(Lines(h)), NEW more \in Seq(Lines(h)), Grows(lines, more),
         NEW told, NEW tell, TellTheSame(told, tell, lines, more)
  PROVE  Scan(lines, told).supported => Scan(more, tell) = Scan(lines, told)
<1> DEFINE old == {i \in DOMAIN lines : i <= ProbeLines /\ (lines[i].size > ProbeLimit \/ i \in told)}
           new == {i \in DOMAIN more : i <= ProbeLines /\ (more[i].size > ProbeLimit \/ i \in tell)}
           first == CHOOSE i \in old : \A j \in old : i <= j
           next == CHOOSE i \in new : \A j \in new : i <= j
<1>1. DOMAIN lines = 1..Len(lines) /\ DOMAIN more = 1..Len(more) /\ Len(lines) \in Nat /\ Len(more) \in Nat
  BY LenProperties
<1>2. \A i \in 1..Len(lines) : i \in 1..Len(more)
  <2>1. Len(lines) <= Len(more)
    BY DEF Grows
  <2> QED
    BY ONLY <1>1, <2>1
<1>3. \A i \in 1..Len(lines) : more[i].size = lines[i].size /\ more[i].rec = lines[i].rec
  BY DEF Grows
<1>4. old \subseteq new
  BY <1>1, <1>2, <1>3 DEF TellTheSame
<1>5. ASSUME NEW j \in new \ old, NEW i \in old PROVE i < j
  <2>1. i \in 1..Len(lines) /\ j \in 1..Len(more)
    BY <1>1
  <2>2. CASE j \in 1..Len(lines)
    <3>1. more[j] # lines[j]
      BY <1>1, <1>3, <2>2 DEF TellTheSame
    <3>2. j = Len(lines)
      BY <2>2, <3>1 DEF Grows
    <3>3. i # j
      OBVIOUS
    <3> HIDE DEF old, new
    <3>4. i \in Nat /\ j \in Nat /\ i <= Len(lines)
      BY <1>1, <2>1
    <3> QED
      BY ONLY <3>2, <3>3, <3>4
  <2> HIDE DEF old, new
  <2>3. CASE j \notin 1..Len(lines)
    BY <1>1, <2>1, <2>3
  <2> QED
    BY <2>2, <2>3
<1>6. old \in SUBSET Nat /\ new \in SUBSET Nat
  BY <1>1
<1>7. Scan(lines, told) = IF old = {} \/ lines[first].size > ProbeLimit THEN Unsupported ELSE Identified(lines[first].rec.id)
  BY DEF Scan
<1>8. Scan(more, tell) = IF new = {} \/ more[next].size > ProbeLimit THEN Unsupported ELSE Identified(more[next].rec.id)
  BY DEF Scan
<1>9. ASSUME Scan(lines, told).supported PROVE old # {} /\ ~(lines[first].size > ProbeLimit)
  <2> HIDE DEF old, first
  <2> QED
    BY <1>7, <1>9 DEF Unsupported
<1>10. ASSUME old # {} PROVE first \in old /\ next = first
  <2> HIDE DEF old, new
  <2> QED
    BY <1>4, <1>5, <1>6, <1>10, FirstStays
<1>11. \A i \in old : i \in 1..Len(lines)
  BY <1>1
<1> HIDE DEF old, new, first, next
<1>12. ASSUME Scan(lines, told).supported PROVE Scan(more, tell) = Scan(lines, told)
  <2>1. old # {} /\ ~(lines[first].size > ProbeLimit) /\ first \in old /\ next = first
    BY <1>9, <1>10, <1>12
  <2>2. more[first].size = lines[first].size /\ more[first].rec = lines[first].rec /\ new # {}
    BY <1>3, <1>4, <1>11, <2>1
  <2> QED
    BY <1>7, <1>8, <2>1, <2>2
<1> QED
  BY <1>12

\* For each of the three probes.
LEMMA ProbeStays ==
  ASSUME harness \in LineHarnesses, NEW lines \in Seq(Lines(harness)), NEW more \in Seq(Lines(harness)),
         Grows(lines, more)
  PROVE  Probe(lines).supported => Probe(more) = Probe(lines)
<1>1. /\ \A i \in 1..Len(lines) : i \in 1..Len(more) /\ (lines[i].form # "torn" => more[i] = lines[i])
      /\ Len(lines) \in Nat /\ Len(more) \in Nat /\ DOMAIN lines = 1..Len(lines) /\ DOMAIN more = 1..Len(more)
  BY DEF Grows
<1>2. CASE harness = "claude"
  <2> DEFINE told == {i \in DOMAIN lines : lines[i].form = "record" /\ lines[i].rec.type # ""}
             tell == {i \in DOMAIN more : more[i].form = "record" /\ more[i].rec.type # ""}
  <2>1. TellTheSame(told, tell, lines, more)
    BY <1>1 DEF TellTheSame
  <2>2. Probe(lines) = Scan(lines, told) /\ Probe(more) = Scan(more, tell)
    BY <1>2 DEF Probe, ClaudeProbe
  <2> HIDE DEF told, tell
  <2> QED
    BY <2>1, <2>2, ScanStays
<1>3. CASE harness = "codex"
  <2> DEFINE told == {i \in DOMAIN lines : /\ lines[i].form = "record" /\ lines[i].rec.valid
                                           /\ lines[i].rec.type = "session_meta"}
             tell == {i \in DOMAIN more : /\ more[i].form = "record" /\ more[i].rec.valid
                                          /\ more[i].rec.type = "session_meta"}
  <2>1. TellTheSame(told, tell, lines, more)
    BY <1>1 DEF TellTheSame
  <2>2. Probe(lines) = Scan(lines, told) /\ Probe(more) = Scan(more, tell)
    BY <1>3 DEF Probe, CodexProbe
  <2> HIDE DEF told, tell
  <2> QED
    BY <2>1, <2>2, ScanStays
<1>4. CASE harness = "pi"
  <2>1. Probe(lines) = PiProbe(lines) /\ Probe(more) = PiProbe(more)
    BY <1>4 DEF Probe
  <2>2. ASSUME PiProbe(lines).supported
        PROVE  lines # <<>> /\ lines[1].form = "record"
    BY <2>2 DEF PiProbe, Unsupported
  <2>3. ASSUME lines # <<>>, lines[1].form = "record" PROVE more # <<>> /\ more[1] = lines[1]
    BY <1>1, <2>3
  <2> QED
    BY <2>1, <2>2, <2>3 DEF PiProbe
<1> QED
  BY <1>2, <1>3, <1>4

\* Appending and completing a line are growing.
LEMMA LinesGrow ==
  ASSUME LineInv, HarnessAppends \/ HarnessCompletes
  PROVE  /\ harness \in LineHarnesses
         /\ Inode(store.path).lines \in Seq(Lines(harness)) /\ Inode(store.path).lines' \in Seq(Lines(harness))
         /\ Grows(Inode(store.path).lines, Inode(store.path).lines')
<1>1. /\ harness \in LineHarnesses /\ Disk /\ Disk' /\ PathThere /\ harness' = harness
  BY WritesMoveStat DEF HarnessAppends, HarnessCompletes, ReadsLines, LineInv, Writes
<1>2. store.path \in 1..Len(store.inodes)
  BY <1>1 DEF Disk, PathThere
<1>3. Inode(store.path) \in [lines : Contents(harness), size : Nat, mtime : Nat]
  BY <1>1, <1>2, InodesAreTyped
<1> DEFINE lines == Inode(store.path).lines
<1>4. lines \in Seq(Lines(harness))
  BY <1>3 DEF Contents
<1>5. PICK new : Written(new) /\
        \/ \E line \in Additions[harness] : new.lines = Append(lines, line)
        \/ lines # <<>> /\ lines[Len(lines)].form = "torn"
           /\ new.lines = [lines EXCEPT ![Len(lines)].form = "record"]
  <2>1. CASE HarnessAppends
    BY <2>1 DEF HarnessAppends
  <2>2. CASE HarnessCompletes
    BY <2>2 DEF HarnessCompletes, IsTorn, LastLine
  <2> QED
    BY <2>1, <2>2
<1>6. Inode(store.path)' = new
  <2>1. store' = [inodes |-> [store.inodes EXCEPT ![store.path] = new], path |-> store.path]
    BY <1>1, <1>5 DEF Written, Disk
  <2> QED
    BY <1>1, <1>2, <2>1 DEF Inode, Disk
<1> HIDE DEF lines
<1>7. CASE \E line \in Additions[harness] : new.lines = Append(lines, line)
  <2>1. PICK line \in Lines(harness) : new.lines = Append(lines, line)
    BY <1>1, <1>7, ReadingAssumption
  <2>2. /\ new.lines \in Seq(Lines(harness)) /\ Len(new.lines) = Len(lines) + 1 /\ Len(lines) \in Nat
        /\ \A i \in 1..Len(lines) : new.lines[i] = lines[i]
    BY <1>4, <2>1
  <2>3. Grows(lines, new.lines)
    BY <2>2 DEF Grows
  <2> QED
    BY <1>1, <1>4, <1>6, <2>2, <2>3 DEF lines
<1>8. CASE lines # <<>> /\ lines[Len(lines)].form = "torn"
           /\ new.lines = [lines EXCEPT ![Len(lines)].form = "record"]
  <2> DEFINE last == lines[Len(lines)]
             completed == [last EXCEPT !.form = "record"]
  <2>1. last \in Lines(harness) /\ Len(lines) \in Nat /\ Len(lines) \in 1..Len(lines)
    BY <1>4, <1>8
  <2>2. last = [form |-> last.form, size |-> last.size, rec |-> last.rec]
        /\ last.size \in 1..3 /\ last.rec \in Records(harness)
    <3> HIDE DEF last
    <3> QED
      BY <2>1 DEF Lines
  <2>3. completed = [form |-> "record", size |-> last.size, rec |-> last.rec]
    <3> HIDE DEF last
    <3> QED
      BY <2>2
  <2>4. completed \in Lines(harness) /\ completed.size = last.size /\ completed.rec = last.rec
    <3> HIDE DEF last, completed
    <3> QED
      BY <2>2, <2>3 DEF Lines
  <2>5. new.lines = [lines EXCEPT ![Len(lines)] = completed]
    BY <1>8
  <2> HIDE DEF last, completed
  <2>6. /\ new.lines \in Seq(Lines(harness)) /\ Len(new.lines) = Len(lines)
        /\ \A i \in 1..Len(lines) : i # Len(lines) => new.lines[i] = lines[i]
        /\ new.lines[Len(lines)] = completed
    BY <1>4, <2>1, <2>4, <2>5
  <2>7. Grows(lines, new.lines)
    BY <1>8, <2>1, <2>4, <2>6 DEF Grows, last
  <2> QED
    BY <1>1, <1>4, <1>6, <2>6, <2>7 DEF lines
<1> QED
  BY <1>5, <1>7, <1>8

\* A session that a probe identified keeps its identity while its file grows
\* (the Probe functions, by whose answer export finds duplicates).
THEOREM ProbesKeepTheirIdentity == Spec => ProbeIdentityStable
<1> DEFINE Keeps ==
      HarnessAppends \/ HarnessCompletes =>
        LET before == Probe(Inode(store.path).lines)
            after == Probe(Inode(store.path).lines)'
        IN before.supported => after = before
<1>1. LineInv /\ [Next]_vars => [Keeps]_vars
  <2> SUFFICES ASSUME LineInv, HarnessAppends \/ HarnessCompletes,
                      Probe(Inode(store.path).lines).supported
               PROVE  Probe(Inode(store.path).lines)' = Probe(Inode(store.path).lines)
    OBVIOUS
  <2> DEFINE more == Inode(store.path).lines'
  <2>1. Probe(more) = Probe(Inode(store.path).lines)
    BY LinesGrow, ProbeStays
  <2>2. harness' = harness
    BY DEF HarnessAppends, HarnessCompletes
  <2>3. Probe(Inode(store.path).lines)' = Probe(more)
    BY <2>2 DEF Probe
  <2> QED
    BY <2>1, <2>3
<1>2. Spec => []LineInv
  BY LineInit, LineStep, PTL DEF Spec
<1> QED
  BY <1>1, <1>2, PTL DEF Spec, ProbeIdentityStable

(***************************************************************************)
(* Places in a sequence, and numbers in their order.                       *)
(***************************************************************************)

\* Places that all hold something else.
Once(s, n) == \A i, j \in 1..n : s[i] = s[j] => i = j

Into(s, m, n) == \A i \in 1..m : s[i] \in 1..n

LEMMA FitsIn ==
  ASSUME NEW n \in Nat, NEW m \in Nat, NEW s, Into(s, m, n), Once(s, m)
  PROVE  m <= n /\ (m = n <=> \A x \in 1..n : \E i \in 1..m : s[i] = x)
<1> DEFINE S == 1..m
           T == 1..n
           g == [i \in S |-> s[i]]
<1>1. IsFiniteSet(T) /\ Cardinality(T) = n /\ Cardinality(S) = m
  BY NumbersTo
<1>2. g \in [S -> T] /\ \A i, j \in S : g[i] = g[j] => i = j
  BY DEF Once, Into
<1>3. \A i \in S : g[i] = s[i]
  OBVIOUS
<1> HIDE DEF S, T, g
<1>4. g \in Injection(S, T)
  BY <1>2 DEF Injection, IsInjective
<1>5. Cardinality(S) <= Cardinality(T) /\ (Cardinality(S) = Cardinality(T) <=> g \in Surjection(S, T))
  BY <1>1, <1>4, FS_Injection
<1>6. m = n <=> \A x \in T : \E i \in S : s[i] = x
  BY <1>1, <1>2, <1>3, <1>5 DEF Surjection
<1>7. QED
  BY <1>1, <1>5, <1>6 DEF S, T

\* Sorting a set of numbers.
LEMMA AscendingIs ==
  ASSUME NEW S \in SUBSET Nat, IsFiniteSet(S)
  PROVE  LET n == Cardinality(S)
             sorted == Ascending(S)
         IN  /\ n \in Nat /\ DOMAIN sorted = 1..n /\ sorted \in Seq(S) /\ Len(sorted) = n
             /\ \A s \in S : \E i \in 1..n : sorted[i] = s
             /\ \A i, j \in 1..n : i < j => sorted[i] < sorted[j]
<1> DEFINE n == Cardinality(S)
           sorted == Ascending(S)
           below == [s \in S |-> {t \in S : t < s}]
<1>1. n \in Nat
  BY FS_CardinalityType
<1>2. TotalOrder(below, S)
  <2>1. \A s \in S : below[s] \subseteq S \ {s}
    OBVIOUS
  <2>2. \A s, t \in S : s # t => s \in below[t] \/ t \in below[s]
    OBVIOUS
  <2>3. ASSUME NEW s \in S, NEW t \in S, s \in below[t], NEW r \in below[s] PROVE r \in below[t]
    <3>1. s < t /\ r < s /\ r \in S /\ s \in Nat /\ t \in Nat /\ r \in Nat
      BY <2>3
    <3>2. r < t
      BY <3>1
    <3>3. QED
      BY <3>1, <3>2
  <2> HIDE DEF below
  <2>4. QED
    BY <2>1, <2>2, <2>3 DEF TotalOrder
<1>3. sorted = [i \in 1..n |-> CHOOSE s \in S : Cardinality(below[s]) = i - 1]
  BY DEF Ascending, Arranged
<1>4. \A s, t \in S : s \in below[t] => s < t
  OBVIOUS
<1> HIDE DEF below, sorted, n
<1>5. Placed(sorted, below, S)
  BY <1>3 DEF Placed, n
<1>6. /\ \A i \in 1..n : sorted[i] \in S
      /\ \A s \in S : \E i \in 1..n : sorted[i] = s
      /\ \A i, j \in 1..n : i < j => sorted[i] \in below[sorted[j]]
  BY <1>2, <1>5, Ranked DEF n
<1>7. DOMAIN sorted = 1..n /\ sorted \in [1..n -> S]
  BY <1>3, <1>6
<1>8. sorted \in Seq(S) /\ Len(sorted) = n
  BY <1>1, <1>7
<1>9. QED
  BY <1>1, <1>4, <1>6, <1>7, <1>8 DEF n, sorted

LEMMA PiToSetIs ==
  ASSUME NEW S, NEW s \in Seq(S)
  PROVE  Pi!ToSet(s) = {s[i] : i \in 1..Len(s)} /\ Pi!ToSet(s) = ToSet(s)
BY DEF Pi!ToSet, ToSet

LEMMA OnceConcat ==
  ASSUME NEW S, NEW s \in Seq(S), NEW t \in Seq(S), Once(s, Len(s)), Once(t, Len(t)),
         ToSet(s) \cap ToSet(t) = {}
  PROVE  /\ s \o t \in Seq(S) /\ Once(s \o t, Len(s \o t))
         /\ ToSet(s \o t) = ToSet(s) \cup ToSet(t)
<1> DEFINE m == Len(s)
           k == Len(t)
           all == s \o t
<1>1. m \in Nat /\ k \in Nat /\ all \in Seq(S) /\ Len(all) = m + k
      /\ (\A i \in 1..m : all[i] = s[i]) /\ (\A i \in 1..k : all[m + i] = t[i])
  OBVIOUS
<1>2. ToSet(s) = {s[i] : i \in 1..m} /\ ToSet(t) = {t[i] : i \in 1..k} /\ ToSet(all) = {all[i] : i \in 1..(m + k)}
  BY <1>1, PiToSetIs
<1>3. Once(s, m) /\ Once(t, k) /\ ToSet(s) \cap ToSet(t) = {}
  OBVIOUS
<1> HIDE DEF m, k, all
<1>4. ASSUME NEW i \in 1..(m + k)
      PROVE  \/ i \in 1..m /\ all[i] = s[i] /\ s[i] \in ToSet(s)
             \/ i - m \in 1..k /\ all[i] = t[i - m] /\ t[i - m] \in ToSet(t)
  <2>1. CASE i \in 1..m
    BY <1>1, <1>2, <2>1
  <2>2. CASE i \notin 1..m
    <3> DEFINE j == i - m
    <3>1. j \in 1..k /\ m + j = i
      BY <1>1, <2>2
    <3> HIDE DEF j
    <3>2. all[i] = t[j] /\ t[j] \in ToSet(t)
      BY <1>1, <1>2, <3>1
    <3>3. QED
      BY <3>1, <3>2 DEF j
  <2>3. QED
    BY <2>1, <2>2
<1>5. ASSUME NEW i \in 1..(m + k), NEW j \in 1..(m + k), all[i] = all[j] PROVE i = j
  <2>1. CASE i \in 1..m /\ all[i] = s[i] /\ s[i] \in ToSet(s)
    <3>1. all[j] \notin ToSet(t)
      BY <1>3, <1>5, <2>1
    <3>2. j \in 1..m /\ all[j] = s[j]
      BY <1>4, <3>1
    <3>3. QED
      BY <1>3, <1>5, <2>1, <3>2 DEF Once
  <2>2. CASE i - m \in 1..k /\ all[i] = t[i - m] /\ t[i - m] \in ToSet(t)
    <3>1. all[j] \notin ToSet(s)
      BY <1>3, <1>5, <2>2
    <3>2. j - m \in 1..k /\ all[j] = t[j - m]
      BY <1>4, <3>1
    <3>3. i - m = j - m
      BY <1>3, <1>5, <2>2, <3>2 DEF Once
    <3>4. QED
      BY <1>1, <3>3
  <2>3. QED
    BY <1>4, <2>1, <2>2
<1>6. ToSet(all) = ToSet(s) \cup ToSet(t)
  <2>1. \A x \in ToSet(s) : \E i \in 1..(m + k) : all[i] = x
    BY <1>1, <1>2
  <2>2. ASSUME NEW x \in ToSet(t) PROVE \E i \in 1..(m + k) : all[i] = x
    <3>1. PICK j \in 1..k : t[j] = x
      BY <1>2
    <3>2. m + j \in 1..(m + k) /\ all[m + j] = x
      BY <1>1, <3>1
    <3>3. QED
      BY <3>2
  <2>3. \A i \in 1..(m + k) : all[i] \in ToSet(s) \cup ToSet(t)
    BY <1>4
  <2>4. \A x \in ToSet(all) : x \in ToSet(s) \cup ToSet(t)
    BY <1>2, <2>3
  <2>5. \A x \in ToSet(s) \cup ToSet(t) : x \in ToSet(all)
    BY <1>2, <2>1, <2>2
  <2>6. QED
    BY <2>4, <2>5
<1>7. Once(all, m + k)
  BY <1>5 DEF Once
<1>8. QED
  BY <1>1, <1>6, <1>7 DEF all

(***************************************************************************)
(* Sorting, and taking the first of what was sorted.                       *)
(***************************************************************************)

\* f holds the elements of S, the earlier before the later.
Orders(f, n, S, below) ==
  /\ f \in [1..n -> S]
  /\ \A s \in S : \E i \in 1..n : f[i] = s
  /\ \A i, j \in 1..n : i < j => f[i] \in below[f[j]]

LEMMA ArrangedUnique ==
  ASSUME NEW S, NEW n \in Nat, NEW below, TotalOrder(below, S), NEW f, Orders(f, n, S, below)
  PROVE  Arranged(S, below) = f /\ IsFiniteSet(S) /\ Cardinality(S) = n
<1>1. f \in [1..n -> S] /\ (\A s \in S : \E i \in 1..n : f[i] = s)
      /\ \A i, j \in 1..n : i < j => f[i] \in below[f[j]]
  BY DEF Orders
<1>2. S = {f[i] : i \in 1..n}
  BY <1>1
<1>3. \A i, j \in 1..n : f[i] = f[j] => i = j
  <2> SUFFICES ASSUME NEW i \in 1..n, NEW j \in 1..n, f[i] = f[j], i < j PROVE FALSE
    BY <1>1
  <2>1. f[i] \in below[f[j]] /\ f[j] \in S
    BY <1>1
  <2>2. QED
    BY <2>1 DEF TotalOrder
<1>4. IsFiniteSet(S) /\ Cardinality(S) = n
  <2>1. Cardinality(S) = n
    BY <1>2, <1>3, CountsDistinct
  <2> DEFINE N == 1..n
  <2>2. IsFiniteSet(N)
    BY NumbersTo
  <2>3. f \in Surjection(N, S)
    <3>1. f \in [N -> S] /\ \A s \in S : \E i \in N : f[i] = s
      BY <1>1
    <3> HIDE DEF N
    <3>2. QED
      BY <3>1 DEF Surjection
  <2> HIDE DEF N
  <2>4. IsFiniteSet(S)
    BY <2>2, <2>3, FS_Surjection
  <2>5. QED
    BY <2>1, <2>4
<1>5. ASSUME NEW k \in 1..n PROVE Cardinality(below[f[k]]) = k - 1
  <2>1. below[f[k]] = {f[i] : i \in 1..(k - 1)}
    <3>1. ASSUME NEW s \in below[f[k]] PROVE \E i \in 1..(k - 1) : s = f[i]
      <4>1. f[k] \in S /\ s \in S /\ s # f[k]
        BY <1>1, <3>1 DEF TotalOrder
      <4>2. PICK i \in 1..n : f[i] = s
        BY <1>1, <4>1
      <4>3. ~(k < i)
        <5> SUFFICES ASSUME k < i PROVE FALSE
          OBVIOUS
        <5>1. f[k] \in below[s]
          BY <1>1, <4>2
        <5>2. below[s] \subseteq below[f[k]]
          BY <3>1, <4>1 DEF TotalOrder
        <5>3. QED
          BY <4>1, <5>1, <5>2 DEF TotalOrder
      <4>4. i # k
        BY <4>1, <4>2
      <4>5. i \in 1..(k - 1)
        BY <4>3, <4>4
      <4>6. QED
        BY <4>2, <4>5
    <3>2. \A i \in 1..(k - 1) : i \in 1..n /\ i < k
      OBVIOUS
    <3>3. \A i \in 1..(k - 1) : f[i] \in below[f[k]]
      BY <1>1, <3>2
    <3>4. QED
      BY <3>1, <3>3
  <2>2. k - 1 \in Nat /\ \A i, j \in 1..(k - 1) : f[i] = f[j] => i = j
    BY <1>3
  <2>3. Cardinality({f[i] : i \in 1..(k - 1)}) = k - 1
    BY <2>2, CountsDistinct
  <2>4. QED
    BY <2>1, <2>3
<1>6. ASSUME NEW k \in 1..n PROVE (CHOOSE s \in S : Cardinality(below[s]) = k - 1) = f[k]
  <2>1. ASSUME NEW s \in S PROVE Cardinality(below[s]) = k - 1 <=> s = f[k]
    <3>1. PICK i \in 1..n : f[i] = s
      BY <1>1
    <3>2. Cardinality(below[s]) = i - 1
      BY <1>5, <3>1
    <3>3. i - 1 = k - 1 <=> i = k
      OBVIOUS
    <3>4. QED
      BY <1>3, <3>1, <3>2, <3>3
  <2>2. f[k] \in S
    BY <1>1
  <2>3. QED
    BY <2>1, <2>2
<1> DEFINE Nth(k) == CHOOSE s \in S : Cardinality(below[s]) = k - 1
<1>7. Arranged(S, below) = [k \in 1..Cardinality(S) |-> Nth(k)]
  BY DEF Arranged
<1>8. \A k \in 1..n : Nth(k) = f[k]
  BY <1>6
<1> HIDE DEF Nth
<1>9. QED
  BY <1>1, <1>4, <1>7, <1>8

\* What Arranged makes of a total order.
LEMMA ArrangedOrders ==
  ASSUME NEW S, IsFiniteSet(S), NEW below, TotalOrder(below, S)
  PROVE  Orders(Arranged(S, below), Cardinality(S), S, below) /\ Cardinality(S) \in Nat
<1> DEFINE n == Cardinality(S)
           sorted == Arranged(S, below)
<1>1. n \in Nat
  BY FS_CardinalityType
<1>2. sorted = [i \in 1..n |-> CHOOSE s \in S : Cardinality(below[s]) = i - 1]
  BY DEF Arranged
<1> HIDE DEF sorted, n
<1>3. Placed(sorted, below, S)
  BY <1>2 DEF Placed, n
<1>4. /\ \A i \in 1..n : sorted[i] \in S
      /\ \A s \in S : \E i \in 1..n : sorted[i] = s
      /\ \A i, j \in 1..n : i < j => sorted[i] \in below[sorted[j]]
  BY <1>3, Ranked DEF n
<1>5. DOMAIN sorted = 1..n /\ sorted \in [1..n -> S]
  BY <1>2, <1>4
<1>6. QED
  BY <1>1, <1>4, <1>5 DEF Orders, n, sorted

\* The numbers less than one of them.
LessThan(S) == [s \in S |-> {t \in S : t < s}]

LEMMA LessThanOrders ==
  ASSUME NEW S \in SUBSET Nat
  PROVE  /\ TotalOrder(LessThan(S), S) /\ Ascending(S) = Arranged(S, LessThan(S))
         /\ \A s, t \in S : s \in LessThan(S)[t] <=> s < t
<1> DEFINE below == LessThan(S)
<1>1. \A s \in S : below[s] \subseteq S \ {s}
  BY DEF LessThan
<1>2. \A s, t \in S : s # t => s \in below[t] \/ t \in below[s]
  BY DEF LessThan
<1>3. ASSUME NEW s \in S, NEW t \in S, s \in below[t], NEW r \in below[s] PROVE r \in below[t]
  <2>1. s < t /\ r < s /\ r \in S /\ s \in Nat /\ t \in Nat /\ r \in Nat
    BY <1>3 DEF LessThan
  <2>2. r < t
    BY <2>1
  <2>3. QED
    BY <2>1, <2>2 DEF LessThan
<1>4. \A s, t \in S : s \in below[t] <=> s < t
  BY DEF LessThan
<1>5. Ascending(S) = Arranged(S, below)
  BY DEF Ascending, LessThan
<1> HIDE DEF below
<1>6. TotalOrder(below, S)
  BY <1>1, <1>2, <1>3 DEF TotalOrder
<1>7. QED
  BY <1>4, <1>5, <1>6 DEF below

\* Without its least number, a set is sorted as it was.
LEMMA AscendingTail ==
  ASSUME NEW X \in SUBSET Nat, IsFiniteSet(X), X # {}
  PROVE  LET m == Head(Ascending(X))
         IN  /\ m \in X /\ (\A x \in X : x # m => m < x) /\ m = Ascending(X)[1]
             /\ Tail(Ascending(X)) = Ascending(X \ {m})
             /\ Ascending(X) # <<>> /\ Len(Tail(Ascending(X))) = Len(Ascending(X)) - 1
<1> DEFINE n == Cardinality(X)
           A == Ascending(X)
           m == Head(A)
           Y == X \ {m}
           T == Tail(A)
<1>1. /\ n \in Nat /\ DOMAIN A = 1..n /\ A \in Seq(X) /\ Len(A) = n
      /\ \A s \in X : \E i \in 1..n : A[i] = s
      /\ \A i, j \in 1..n : i < j => A[i] < A[j]
  BY AscendingIs
<1>2. n # 0
  <2> HIDE DEF A, n
  <2>1. PICK s \in X : TRUE
    OBVIOUS
  <2>2. PICK i \in 1..n : A[i] = s
    BY <1>1, <2>1
  <2>3. QED
    BY <1>1, <2>2
<1>3. A # <<>> /\ m = A[1] /\ 1 \in 1..n /\ A[1] \in X
  BY <1>1, <1>2
<1>4. \A x \in X : x # m => m < x
  <2> SUFFICES ASSUME NEW x \in X, x # A[1] PROVE A[1] < x
    BY <1>3
  <2>1. PICK i \in 1..n : A[i] = x
    BY <1>1
  <2>2. 1 < i
    BY <2>1
  <2>3. QED
    BY <1>1, <1>3, <2>1, <2>2
<1>5. T \in Seq(X) /\ Len(T) = n - 1 /\ \A i \in 1..(n - 1) : T[i] = A[i + 1]
  BY <1>1, <1>3
<1>6. Orders(T, n - 1, Y, LessThan(Y))
  <2> HIDE DEF T, A, n
  <2>1. ASSUME NEW i \in 1..(n - 1) PROVE T[i] \in Y
    <3>1. i + 1 \in 1..n /\ 1 < i + 1
      BY <1>1
    <3>2. A[1] < A[i + 1] /\ A[i + 1] \in X
      BY <1>1, <1>3, <3>1
    <3>3. A[1] \in Nat
      BY <1>3
    <3>4. A[i + 1] # A[1]
      BY <3>2, <3>3
    <3>5. QED
      BY <1>3, <1>5, <3>2, <3>4
  <2>2. ASSUME NEW y \in Y PROVE \E i \in 1..(n - 1) : T[i] = y
    <3>1. PICK i \in 1..n : A[i] = y
      BY <1>1
    <3>2. i # 1
      BY <1>3, <3>1
    <3> DEFINE k == i - 1
    <3>3. k \in 1..(n - 1) /\ k + 1 = i
      BY <1>1, <3>2
    <3> HIDE DEF k
    <3>4. T[k] = A[k + 1]
      BY <1>5, <3>3
    <3>5. QED
      BY <3>1, <3>3, <3>4
  <2>3. ASSUME NEW i \in 1..(n - 1), NEW j \in 1..(n - 1), i < j PROVE T[i] \in LessThan(Y)[T[j]]
    <3>1. i + 1 \in 1..n /\ j + 1 \in 1..n /\ i + 1 < j + 1
      BY <1>1, <2>3
    <3>2. A[i + 1] < A[j + 1]
      BY <1>1, <3>1
    <3>3. T[i] < T[j] /\ T[i] \in Y /\ T[j] \in Y
      BY <1>5, <2>1, <3>2
    <3>4. QED
      BY <3>3 DEF LessThan
  <2>4. DOMAIN T = 1..(n - 1) /\ T = [i \in 1..(n - 1) |-> T[i]]
    BY <1>1, <1>5
  <2>5. T \in [1..(n - 1) -> Y]
    BY <2>1, <2>4
  <2>6. QED
    BY <2>2, <2>3, <2>5 DEF Orders
<1>7. Y \in SUBSET Nat /\ n - 1 \in Nat
  <2> HIDE DEF n, A
  <2>1. Y \in SUBSET Nat
    OBVIOUS
  <2>2. n \in Nat
    BY <1>1
  <2>3. n - 1 \in Nat
    BY <1>2, <2>2
  <2>4. QED
    BY <2>1, <2>3
<1>8. TotalOrder(LessThan(Y), Y) /\ Ascending(Y) = Arranged(Y, LessThan(Y))
  BY <1>7, LessThanOrders
<1> HIDE DEF T, A, n, m, Y
<1>9. Ascending(Y) = T
  BY <1>6, <1>7, <1>8, ArrangedUnique
<1>10. QED
  BY <1>3, <1>4, <1>5, <1>9, <1>1 DEF T, A, n, m, Y

LEMMA AscendingNone == Ascending({}) = <<>>
<1>1. Cardinality({}) = 0
  BY FS_EmptySet
<1>2. QED
  BY <1>1 DEF Ascending, Arranged

(***************************************************************************)
(* Flattening from the front, and what is told of a sorted set.            *)
(***************************************************************************)

LEMMA FlattenCons ==
  ASSUME NEW S, NEW seqs \in Seq(Seq(S)), seqs # <<>>
  PROVE  FlattenSeq(seqs) = Head(seqs) \o FlattenSeq(Tail(seqs))
<1> DEFINE N == Len(seqs)
           rest == Tail(seqs)
           first == Head(seqs)
           f == Flattening(seqs)
           g == Flattening(rest)
<1>1. /\ N \in Nat /\ N # 0 /\ rest \in Seq(Seq(S)) /\ Len(rest) = N - 1 /\ first = seqs[1]
      /\ first \in Seq(S) /\ \A i \in 1..(N - 1) : rest[i] = seqs[i + 1] /\ rest[i] \in Seq(S)
  OBVIOUS
<1>2. Flattens(f, seqs, N) /\ FlattenSeq(seqs) = f[N]
  BY <1>1, FlatteningIs, FlattenSeqIs
<1>3. N - 1 \in Nat /\ Len(rest) \in Nat
  <2> HIDE DEF N, rest
  <2>1. QED
    BY <1>1
<1>4. Flattens(g, rest, N - 1)
  <2>1. Flattens(g, rest, Len(rest))
    BY <1>3, FlatteningIs
  <2> HIDE DEF N, rest, g
  <2>2. QED
    BY <1>1, <2>1
<1>5. N - 1 # 0 => FlattenSeq(rest) = g[N - 1]
  <2>1. Len(rest) # 0 => FlattenSeq(rest) = g[Len(rest)]
    BY FlattenSeqIs
  <2> HIDE DEF N, rest, g
  <2>2. QED
    BY <1>1, <2>1
<1>6. N - 1 = 0 => FlattenSeq(rest) = <<>>
  <2>1. Len(rest) = 0 => rest = <<>>
    <3>1. rest \in Seq(Seq(S))
      BY <1>1
    <3> HIDE DEF rest
    <3>2. QED
      BY <3>1
  <2>2. Len(rest) = 0 => FlattenSeq(rest) = <<>>
    BY <2>1, FlattenNone
  <2> HIDE DEF N, rest, g
  <2>3. QED
    BY <1>1, <2>2
<1> HIDE DEF f, g, N, rest, first
<1> DEFINE Good == {i \in Nat : (i = 0 \/ (f[i + 1] = first \o g[i] /\ g[i] \in Seq(S)))}
<1>7. f[1] = first
  <2>1. f[0 + 1] = IF 0 = 0 THEN seqs[0 + 1] ELSE f[0] \o seqs[0 + 1]
    <3>1. 0 \in Nat /\ 0 < N
      BY <1>1
    <3>2. QED
      BY <1>1, <1>2, <3>1, FlattensAt
  <2>2. QED
    BY <1>1, <2>1
<1>8. Inductive(Good, N - 1)
  <2> SUFFICES ASSUME NEW i \in Nat, i < N - 1, i \in Good
               PROVE  f[i + 1 + 1] = first \o g[i + 1] /\ g[i + 1] \in Seq(S)
    <3>1. 0 \in Good /\ \A i \in Nat : i + 1 \in Nat
      OBVIOUS
    <3>2. \A i \in Nat : f[i + 1 + 1] = first \o g[i + 1] /\ g[i + 1] \in Seq(S) => i + 1 \in Good
      OBVIOUS
    <3> HIDE DEF Good
    <3>3. QED
      BY <3>1, <3>2 DEF Inductive
  <2> DEFINE k == i + 1
  <2>1. k \in Nat /\ k \in 1..(N - 1) /\ k < N /\ k # 0 /\ i < N - 1
    BY <1>1
  <2>2. g[i + 1] = IF i = 0 THEN rest[i + 1] ELSE g[i] \o rest[i + 1]
    BY <1>3, <1>4, FlattensAt
  <2>3. g[k] = IF i = 0 THEN rest[k] ELSE g[i] \o rest[k]
    BY <2>2, Zenon
  <2>4. rest[k] = seqs[k + 1] /\ rest[k] \in Seq(S)
    <3> HIDE DEF k
    <3>1. QED
      BY <1>1, <2>1
  <2>5. i = 0 => k = 1
    OBVIOUS
  <2>6. i # 0 => f[k] = first \o g[i] /\ g[i] \in Seq(S)
    OBVIOUS
  <2> HIDE DEF k, Good
  <2>7. f[k + 1] = IF k = 0 THEN seqs[k + 1] ELSE f[k] \o seqs[k + 1]
    BY <1>1, <1>2, <2>1, FlattensAt
  <2>8. f[k + 1] = f[k] \o rest[k]
    BY <2>1, <2>4, <2>7, Zenon
  <2>9. CASE i = 0
    <3>1. g[k] = rest[k] /\ f[k] = first
      BY <1>7, <2>3, <2>5, <2>9
    <3>2. QED
      BY <2>4, <2>8, <3>1 DEF k
  <2>10. CASE i # 0
    <3>1. g[k] = g[i] \o rest[k] /\ f[k] = first \o g[i] /\ g[i] \in Seq(S)
      BY <2>3, <2>6, <2>10
    <3>2. (first \o g[i]) \o rest[k] = first \o (g[i] \o rest[k]) /\ g[i] \o rest[k] \in Seq(S)
      <4> DEFINE a == g[i]
                 b == rest[k]
      <4>1. a \in Seq(S) /\ b \in Seq(S) /\ first \in Seq(S)
        BY <1>1, <2>4, <3>1
      <4> HIDE DEF a, b
      <4>2. (first \o a) \o b = first \o (a \o b) /\ a \o b \in Seq(S)
        BY <4>1
      <4>3. QED
        BY <4>2 DEF a, b
    <3>3. QED
      BY <2>8, <3>1, <3>2 DEF k
  <2>11. QED
    BY <2>9, <2>10
<1>9. N - 1 # 0 => f[N] = first \o g[N - 1]
  <2> HIDE DEF Good
  <2>1. N - 1 \in Good
    BY <1>3, <1>8, Upward
  <2>2. N - 1 + 1 = N
    BY <1>1
  <2> DEFINE k == N - 1
  <2>3. k \in Good /\ k + 1 = N
    BY <2>1, <2>2
  <2> HIDE DEF k
  <2>4. k # 0 => f[k + 1] = first \o g[k]
    BY <2>3 DEF Good
  <2>5. QED
    BY <2>3, <2>4 DEF k
<1>10. CASE N - 1 = 0
  <2>1. N = 1
    BY <1>1, <1>10
  <2>2. FlattenSeq(seqs) = first /\ FlattenSeq(rest) = <<>>
    BY <1>2, <1>6, <1>7, <1>10, <2>1
  <2>3. first \o <<>> = first
    BY <1>1
  <2>4. QED
    BY <2>2, <2>3 DEF first, rest
<1>11. CASE N - 1 # 0
  BY <1>2, <1>5, <1>9, <1>11 DEF first, rest
<1>12. QED
  BY <1>10, <1>11

\* What F tells of each of the numbers in X, from the least on.
Over(F, X) == FlattenSeq([i \in DOMAIN Ascending(X) |-> F[Ascending(X)[i]]])

Tells(F, X, S) == \A x \in X : F[x] \in Seq(S)

LEMMA OverNone == ASSUME NEW F PROVE Over(F, {}) = <<>>
<1>1. [i \in DOMAIN <<>> |-> F[<<>>[i]]] = <<>>
  OBVIOUS
<1>2. Over(F, {}) = FlattenSeq(<<>>)
  BY <1>1, AscendingNone DEF Over
<1>3. QED
  BY <1>2, FlattenNone

LEMMA OverType ==
  ASSUME NEW X \in SUBSET Nat, IsFiniteSet(X), NEW F, NEW S, Tells(F, X, S)
  PROVE  /\ [i \in DOMAIN Ascending(X) |-> F[Ascending(X)[i]]] \in Seq(Seq(S))
         /\ Over(F, X) \in Seq(S)
<1> DEFINE A == Ascending(X)
           n == Cardinality(X)
           all == [i \in DOMAIN A |-> F[A[i]]]
<1>1. n \in Nat /\ DOMAIN A = 1..n /\ A \in Seq(X)
  BY AscendingIs
<1>2. \A i \in 1..n : A[i] \in X
  BY <1>1
<1>3. \A i \in 1..n : F[A[i]] \in Seq(S)
  BY <1>2 DEF Tells
<1> DEFINE N == 1..n
           T == Seq(S)
<1>4. all \in [N -> T]
  BY <1>1, <1>3
<1> HIDE DEF all, A, n, T
<1>5. all \in Seq(T)
  BY <1>1, <1>4
<1>6. all \in Seq(Seq(S))
  BY <1>5 DEF T
<1>7. FlattenSeq(all) \in Seq(S)
  BY <1>6, FlattenType
<1>8. QED
  BY <1>6, <1>7 DEF Over, all, A

\* The least number's comes first.
LEMMA OverLeast ==
  ASSUME NEW X \in SUBSET Nat, IsFiniteSet(X), X # {}, NEW F, NEW S, Tells(F, X, S)
  PROVE  LET m == Head(Ascending(X)) IN Over(F, X) = F[m] \o Over(F, X \ {m})
<1> DEFINE A == Ascending(X)
           m == Head(A)
           all == [i \in DOMAIN A |-> F[A[i]]]
           n == Len(A)
           B == Tail(A)
           more == [i \in DOMAIN B |-> F[B[i]]]
<1>1. /\ m \in X /\ m = A[1] /\ B = Ascending(X \ {m}) /\ A # <<>> /\ Len(B) = n - 1
  BY AscendingTail
<1>2. A \in Seq(X)
  BY AscendingIs
<1>3. all \in Seq(Seq(S)) /\ Over(F, X) = FlattenSeq(all)
  BY OverType DEF Over
<1>4. Over(F, X \ {m}) = FlattenSeq(more)
  BY <1>1 DEF Over
<1> HIDE DEF A, m
<1>5. n \in Nat /\ n # 0 /\ DOMAIN A = 1..n /\ DOMAIN B = 1..(n - 1) /\ \A i \in 1..(n - 1) : B[i] = A[i + 1]
  BY <1>1, <1>2
<1>6. all # <<>> /\ Head(all) = F[m] /\ Len(all) = n
  <2>1. DOMAIN all = 1..n /\ all[1] = F[A[1]]
    BY <1>5
  <2> HIDE DEF all, n
  <2>2. QED
    BY <1>1, <1>3, <1>5, <2>1
<1>7. Tail(all) = more
  <2>1. DOMAIN more = 1..(n - 1) /\ \A i \in 1..(n - 1) : more[i] = all[i + 1]
    <3>1. \A i \in 1..(n - 1) : i + 1 \in 1..n
      BY <1>5
    <3> HIDE DEF n, B
    <3>2. QED
      BY <1>5, <3>1
  <2> HIDE DEF all, more, n, B
  <2>2. more = [i \in 1..(n - 1) |-> more[i]]
    <3>1. more = [i \in DOMAIN B |-> F[B[i]]]
      BY DEF more
    <3>2. QED
      BY <2>1, <3>1
  <2>3. /\ Tail(all) \in Seq(Seq(S)) /\ Len(Tail(all)) = n - 1
        /\ \A i \in 1..(n - 1) : Tail(all)[i] = all[i + 1]
    BY <1>3, <1>6
  <2> DEFINE rest == Tail(all)
  <2>4. rest = [i \in 1..(n - 1) |-> rest[i]] /\ \A i \in 1..(n - 1) : rest[i] = all[i + 1]
    <3>1. rest \in Seq(Seq(S)) /\ Len(rest) = n - 1 /\ \A i \in 1..(n - 1) : rest[i] = all[i + 1]
      BY <2>3
    <3> HIDE DEF rest
    <3>2. QED
      BY <3>1
  <2> HIDE DEF rest
  <2>5. rest = more
    BY <2>1, <2>2, <2>4
  <2>6. QED
    BY <2>5 DEF rest
<1> HIDE DEF all, more
<1>8. FlattenSeq(all) = F[m] \o FlattenSeq(more)
  BY <1>3, <1>6, <1>7, FlattenCons
<1>9. QED
  BY <1>3, <1>4, <1>8 DEF m, A

Same(F, G, X) == \A x \in X : F[x] = G[x]

LEMMA OverSame ==
  ASSUME NEW X \in SUBSET Nat, IsFiniteSet(X), NEW F, NEW G, Same(F, G, X)
  PROVE  Over(F, X) = Over(G, X)
<1> DEFINE A == Ascending(X)
           n == Cardinality(X)
<1>1. n \in Nat /\ DOMAIN A = 1..n /\ A \in Seq(X)
  BY AscendingIs
<1>2. \A i \in 1..n : A[i] \in X
  BY <1>1
<1>3. \A i \in 1..n : F[A[i]] = G[A[i]]
  BY <1>2 DEF Same
<1> HIDE DEF A
<1>4. [i \in DOMAIN A |-> F[A[i]]] = [i \in DOMAIN A |-> G[A[i]]]
  BY <1>1, <1>3
<1>5. QED
  BY <1>4 DEF Over, A

\* What tells nothing can be left out.
Silent(F, X) == \A x \in X : F[x] = <<>>

LEMMA OverPadded ==
  ASSUME NEW X \in SUBSET Nat, IsFiniteSet(X), NEW F, NEW S, Tells(F, X, S),
         NEW M, Silent(F, X \ M)
  PROVE  Over(F, X \cap M) = Over(F, X)
<1> DEFINE N == Cardinality(X)
           Good == {n \in Nat : \A L \in SUBSET X : Cardinality(L) = n => Over(F, L \cap M) = Over(F, L)}
<1>1. N \in Nat
  BY FS_CardinalityType
<1>2. ASSUME NEW L \in SUBSET X
      PROVE  /\ L \in SUBSET Nat /\ IsFiniteSet(L) /\ Cardinality(L) \in Nat /\ Tells(F, L, S)
  <2>1. IsFiniteSet(L) /\ Cardinality(L) \in Nat
    BY SubsetSizes
  <2>2. QED
    BY <2>1 DEF Tells
<1>3. ASSUME NEW L \in SUBSET X, Cardinality(L) = 0 PROVE Over(F, L \cap M) = Over(F, L)
  <2>1. L = {}
    BY <1>2, <1>3, FS_EmptySet
  <2>2. L \cap M = L
    BY <2>1
  <2>3. QED
    BY <2>2
<1>4. ASSUME NEW n \in Nat, n \in Good, NEW L \in SUBSET X, Cardinality(L) = n + 1
      PROVE  Over(F, L \cap M) = Over(F, L)
  <2>1. L # {}
    BY <1>4, FS_EmptySet
  <2> DEFINE m == Head(Ascending(L))
             K == L \ {m}
  <2>2. m \in L /\ (\A x \in L : x # m => m < x) /\ Over(F, L) = F[m] \o Over(F, K)
    BY <1>2, <2>1, AscendingTail, OverLeast
  <2> HIDE DEF m
  <2>3. K \in SUBSET X /\ Cardinality(K) = n
    <3>1. Cardinality(K) = IF m \in L THEN Cardinality(L) - 1 ELSE Cardinality(L)
      BY <1>2, FS_RemoveElement
    <3>2. Cardinality(L) = n + 1 /\ K \in SUBSET X
      BY <1>4
    <3> HIDE DEF K, Good
    <3>3. QED
      BY <2>2, <3>1, <3>2
  <2>4. Over(F, K \cap M) = Over(F, K)
    BY <1>4, <2>3
  <2>5. CASE m \in M
    <3> DEFINE Y == L \cap M
               k == Head(Ascending(Y))
    <3>1. Y \in SUBSET X /\ Y # {} /\ m \in Y
      BY <2>2, <2>5
    <3>2. Y \in SUBSET Nat /\ IsFiniteSet(Y) /\ Tells(F, Y, S)
      BY <1>2, <3>1
    <3>3. k \in Y /\ (\A x \in Y : x # k => k < x) /\ Over(F, Y) = F[k] \o Over(F, Y \ {k})
      BY <3>1, <3>2, AscendingTail, OverLeast
    <3> HIDE DEF k
    <3>4. k = m
      <4>1. k \in Nat /\ m \in Nat /\ k \in L
        BY <3>1, <3>2, <3>3
      <4>2. k # m => k < m /\ m < k
        BY <2>2, <3>1, <3>3, <4>1
      <4>3. QED
        BY <4>1, <4>2
    <3>5. Y \ {m} = K \cap M
      OBVIOUS
    <3>6. QED
      BY <2>2, <2>4, <3>3, <3>4, <3>5
  <2>6. CASE m \notin M
    <3>1. F[m] = <<>>
      BY <2>2, <2>6 DEF Silent
    <3>2. L \cap M = K \cap M
      BY <2>6
    <3>3. Over(F, K) \in Seq(S)
      BY <1>2, <2>3, OverType
    <3> DEFINE rest == Over(F, K)
    <3> HIDE DEF rest
    <3>4. <<>> \o rest = rest
      BY <3>3 DEF rest
    <3>5. Over(F, L) = rest
      BY <2>2, <3>1, <3>4 DEF rest
    <3>6. QED
      BY <2>4, <3>2, <3>5 DEF rest
  <2>7. QED
    BY <2>5, <2>6
<1>5. N \in Good
  <2>1. 0 \in Good
    BY <1>3
  <2>2. \A n \in Nat : n \in Good => n + 1 \in Good
    <3> SUFFICES ASSUME NEW n \in Nat, n \in Good PROVE n + 1 \in Good
      OBVIOUS
    <3>1. \A L \in SUBSET X : Cardinality(L) = n + 1 => Over(F, L \cap M) = Over(F, L)
      BY <1>4
    <3>2. QED
      BY <3>1
  <2> HIDE DEF Good, N
  <2>3. Inductive(Good, N)
    BY <2>1, <2>2 DEF Inductive
  <2>4. QED
    BY <1>1, <2>3, Upward
<1>6. QED
  BY <1>5

(***************************************************************************)
(* The harness stays, and what every reader returns.                       *)
(***************************************************************************)

IsSeen(s) == s = [before |-> s.before, lines |-> s.lines, passed |-> s.passed, touched |-> s.touched, stood |-> s.stood]

Result ==
  /\ reader.partial \in BOOLEAN /\ reader.changed \in BOOLEAN
  /\ reader.malformed \in Nat /\ reader.error \in Errors

LEMMA HarnessStays == [Next]_vars => harness' = harness
<1> SUFFICES ASSUME [Next]_vars PROVE harness' = harness
  OBVIOUS
<1>1. CASE Next
  BY <1>1 DEF Next, Parses, Discovers, Fails, Harness,
     StatsBefore, Opens, FindsNothing, Fills, StatsAfter, ClaudeReadsLine, CodexReadsLine, EndOfFile,
     PiIndexesLine, PiAnalyzes, PiEmits, PiEnds, LegacyStats, LegacyReadsSession, LegacyListsMessages,
     LegacyReadsMessage, LegacyListsParts, LegacyReadsPart, LegacyStatsAfter, SQLiteBegins,
     SQLiteReadsSession, SQLiteReadsRow, SQLiteEnds, WalkDetects, WalkOpensBase, WalkEntersDirectory,
     WalkVisits, WalkEndsBase, SinkRefuses, ReadFails, NoticesCancel, WalkFails, HarnessAppends,
     HarnessCompletes, HarnessRewrites, HarnessReplaces, HarnessRemoves, LegacyHarnessWrites,
     SQLiteHarnessCommits, WalkHarnessCreates, WalkHarnessRemoves, Cancel
<1>2. CASE UNCHANGED vars
  BY <1>2 DEF vars
<1>3. QED
  BY <1>1, <1>2

(***************************************************************************)
(* Discover: types, and what a step does to the walk.                      *)
(***************************************************************************)

WalkFields ==
  {"partial", "malformed", "changed", "error", "pc", "roots", "base", "directories", "names", "found"}
IsWalkReader(r) == r = [field \in WalkFields |-> r[field]]

\* A list with nothing twice in it.
Listing(list, S) ==
  list \in Seq(S) /\ \A i, j \in DOMAIN list : list[i] = list[j] => i = j

Place(e) == <<e.directory, e.name>>

\* What the harness keeps in the directories that are walked.
WalkStore ==
  /\ IsWalk(store) /\ \A b \in DOMAIN store.bases : store.bases[b] \subseteq EverListed
  /\ DOMAIN seen.before = DOMAIN store.bases

WalkType ==
  /\ WalkStore
  /\ IsWalkReader(reader) /\ IsSeen(seen) /\ Result
  /\ reader.pc \in {"detect", "base", "entries", "done"} /\ ~reader.changed
  /\ reader.pc # "done" => reader.error = "none"
  /\ emitted = <<>>
  /\ reader.pc = "detect" => reader.base = 1 /\ reader.found = <<>>
  /\ reader.pc \in {"detect", "base"} => reader.directories = <<>> /\ reader.names = <<>>
  /\ reader.pc # "detect" /\ reader.error = "none" =>
       /\ reader.roots = Roots
       /\ reader.base \in Nat \ {0}
       /\ Listing(reader.names, EverListed)
       /\ Listing(reader.directories, Nat)
       /\ reader.found \in Seq(Nat \X (Nat \X Nat))
       /\ store.style = "legacy" => reader.directories = <<>>
  /\ reader.pc = "entries" => reader.base <= Len(reader.roots)
  /\ reader.pc = "done" /\ reader.error = "none" => reader.base > Len(reader.roots)

\* Nothing has come or can come twice.
OnceOnly ==
  /\ \A i, j \in DOMAIN reader.found : reader.found[i] = reader.found[j] => i = j
  /\ reader.error = "none" =>
       \A i \in DOMAIN reader.found :
         \E k \in DOMAIN reader.roots :
           /\ reader.found[i][1] = reader.roots[k]
           /\ k < reader.base \/ (k = reader.base /\ reader.pc = "entries")
  /\ reader.pc = "entries" =>
       /\ \A i \in DOMAIN reader.found : reader.found[i][1] = Base =>
            /\ reader.found[i][2][1] \notin ToSet(reader.directories)
            /\ \A e \in ToSet(reader.names) : reader.found[i][2] # Place(e)
       /\ \A e \in ToSet(reader.names) : e.directory \notin ToSet(reader.directories)

\* What was there from the beginning, and was never removed.
Standing(base, e) == e \in seen.before[base] /\ <<base, Place(e)>> \notin seen.touched

Counts == store.style = "claude" => seen.touched = {}

NoneMissed ==
  /\ \A b \in DOMAIN store.bases : \A e \in EverListed : Standing(b, e) => e \in store.bases[b]
  /\ Counts /\ reader.pc # "detect" /\ reader.error = "none" =>
       \A k \in DOMAIN reader.roots : k < reader.base =>
         \A e \in EverListed : e.kind = "transcript" /\ Standing(reader.roots[k], e) =>
           <<reader.roots[k], Place(e)>> \in ToSet(reader.found)
  /\ Counts /\ reader.pc = "entries" =>
       /\ \A e \in EverListed : e.kind = "transcript" /\ Standing(Base, e) =>
            \/ <<Base, Place(e)>> \in ToSet(reader.found)
            \/ e \in ToSet(reader.names)
            \/ e.directory \in ToSet(reader.directories)
       /\ store.style = "claude" =>
            /\ ToSet(reader.names) \subseteq Entries
            /\ ToSet(reader.directories) \subseteq Directories

\* The candidates that lead somewhere, and whether two lead to the same place.
Leading == {c \in ToSet(store.candidates) : ~(c.default /\ c.link)}
Aliased == \E c, d \in Leading : c.path # d.path /\ ToSet(c.bases) \cap ToSet(d.bases) # {}
Single == store.style \in {"claude", "codex"} => ~Aliased

WalkInv == harness = "walk" => WalkType /\ (Single => OnceOnly) /\ NoneMissed


(***************************************************************************)
(* Lists.                                                                  *)
(***************************************************************************)

LEMMA ListingTail ==
  ASSUME NEW S, NEW list, Listing(list, S), list # <<>>
  PROVE  /\ Head(list) \in S /\ Head(list) \in ToSet(list) /\ Listing(Tail(list), S)
         /\ ToSet(Tail(list)) = ToSet(list) \ {Head(list)}
<1> DEFINE n == Len(list)
           tail == Tail(list)
<1>1. /\ list \in Seq(S) /\ \A i, j \in 1..n : list[i] = list[j] => i = j
      /\ n \in Nat \ {0} /\ DOMAIN list = 1..n
  BY DEF Listing
<1>2. tail \in Seq(S) /\ Len(tail) = n - 1 /\ \A i \in 1..(n - 1) : tail[i] = list[i + 1]
  BY <1>1
<1>3. Head(list) = list[1] /\ list[1] \in S
  BY <1>1
<1> HIDE DEF n, tail
<1>4. DOMAIN tail = 1..(n - 1) /\ n - 1 \in Nat
  BY <1>1, <1>2
<1>5. ASSUME NEW i \in 1..(n - 1), NEW j \in 1..(n - 1), tail[i] = tail[j] PROVE i = j
  <2>1. i + 1 \in 1..n /\ j + 1 \in 1..n /\ list[i + 1] = list[j + 1]
    BY <1>1, <1>2, <1>5
  <2>2. i + 1 = j + 1
    BY <1>1, <2>1
  <2>3. QED
    BY <2>2
<1>6. ToSet(tail) = ToSet(list) \ {list[1]}
  <2>1. ToSet(tail) = {tail[i] : i \in 1..(n - 1)} /\ ToSet(list) = {list[i] : i \in 1..n}
    BY <1>1, <1>4 DEF ToSet
  <2>2. ASSUME NEW i \in 1..(n - 1) PROVE tail[i] \in ToSet(list) \ {list[1]}
    <3>1. i + 1 \in 1..n /\ i + 1 # 1 /\ 1 \in 1..n
      BY <1>1
    <3>2. tail[i] = list[i + 1] /\ list[i + 1] # list[1]
      BY <1>1, <1>2, <3>1
    <3>3. QED
      BY <2>1, <3>1, <3>2
  <2>3. ASSUME NEW i \in 1..n, i # 1 PROVE list[i] \in ToSet(tail)
    <3>1. i - 1 \in 1..(n - 1) /\ (i - 1) + 1 = i
      BY <1>1, <2>3
    <3>2. tail[i - 1] = list[i]
      BY <1>2, <3>1
    <3>3. QED
      BY <2>1, <3>1, <3>2
  <2>4. QED
    BY <2>1, <2>2, <2>3
<1>7. QED
  BY <1>1, <1>2, <1>3, <1>4, <1>5, <1>6 DEF Listing, tail, ToSet

\* What is sorted is listed.
LEMMA ArrangedLists ==
  ASSUME NEW S, IsFiniteSet(S), NEW below, TotalOrder(below, S)
  PROVE  Listing(Arranged(S, below), S) /\ ToSet(Arranged(S, below)) = S
<1> DEFINE list == Arranged(S, below)
           n == Cardinality(S)
<1>1. Orders(list, n, S, below) /\ n \in Nat
  BY ArrangedOrders
<1> HIDE DEF list, n
<1>2. list \in [1..n -> S] /\ DOMAIN list = 1..n
      /\ (\A s \in S : \E i \in 1..n : list[i] = s)
      /\ (\A i, j \in 1..n : i < j => list[i] \in below[list[j]])
  BY <1>1 DEF Orders
<1>3. list \in Seq(S)
  BY <1>1, <1>2
<1>4. ASSUME NEW i \in 1..n, NEW j \in 1..n, list[i] = list[j] PROVE i = j
  <2>1. ASSUME NEW k \in 1..n, NEW m \in 1..n, k < m PROVE list[k] # list[m]
    <3>1. list[k] \in below[list[m]] /\ list[m] \in S
      BY <1>2, <2>1
    <3>2. below[list[m]] \subseteq S \ {list[m]}
      BY <3>1 DEF TotalOrder
    <3>3. QED
      BY <3>1, <3>2
  <2>2. i < j \/ j < i \/ i = j
    BY <1>1
  <2>3. QED
    BY <1>4, <2>1, <2>2
<1>5. ToSet(list) = S
  BY <1>2 DEF ToSet
<1>6. QED
  BY <1>2, <1>3, <1>4, <1>5 DEF Listing, list

LEMMA ListingWidens ==
  ASSUME NEW S, NEW T, S \subseteq T, NEW list, Listing(list, S)
  PROVE  Listing(list, T)
<1>1. list \in Seq(T)
  BY DEF Listing
<1>2. QED
  BY <1>1 DEF Listing

LEMMA AscendingLists ==
  ASSUME NEW S \in SUBSET Nat, IsFiniteSet(S)
  PROVE  Listing(Ascending(S), Nat) /\ ToSet(Ascending(S)) = S
<1> DEFINE below == LessThan(S)
<1>1. TotalOrder(below, S) /\ Ascending(S) = Arranged(S, below)
  BY LessThanOrders
<1> HIDE DEF below
<1>2. Listing(Arranged(S, below), S) /\ ToSet(Arranged(S, below)) = S
  BY <1>1, ArrangedLists
<1>3. Listing(Arranged(S, below), Nat)
  BY <1>2, ListingWidens
<1>4. QED
  BY <1>1, <1>2, <1>3

LEMMA ListedEntries == EverListed \subseteq EntryRecords
                       /\ \A e, f \in EverListed : Place(e) = Place(f) => e = f
<1>1. ASSUME NEW b \in Beginnings["walk"], NEW S \in ToSet(b.store.bases) PROVE S \subseteq EntryRecords
  BY DiscoveryAssumption DEF IsWalk, ToSet
<1>2. EverListed \subseteq EntryRecords
  BY <1>1, DiscoveryAssumption DEF EverListed
<1>3. QED
  BY <1>2, DiscoveryAssumption DEF Place

LEMMA SortedLists ==
  ASSUME NEW S \in SUBSET EverListed, IsFiniteSet(S)
  PROVE  Listing(Sorted(S), EverListed) /\ ToSet(Sorted(S)) = S
<1> DEFINE below == [e \in S |-> {f \in S : EntryOrder(f, e)}]
<1>1. \A e \in S : e.directory \in Nat /\ e.name \in Nat
  BY ListedEntries DEF EntryRecords
<1>2. \A e, f \in S : e.directory = f.directory /\ e.name = f.name => e = f
  BY ListedEntries DEF Place
<1>3. TotalOrder(below, S)
  <2>1. \A s \in S : below[s] \subseteq S \ {s}
    BY <1>1 DEF EntryOrder
  <2>2. \A s, t \in S : s # t => s \in below[t] \/ t \in below[s]
    BY <1>1, <1>2 DEF EntryOrder
  <2>3. ASSUME NEW s \in S, NEW t \in S, s \in below[t] PROVE below[s] \subseteq below[t]
    <3>1. ASSUME NEW r \in below[s] PROVE r \in below[t]
      <4>1. r \in S /\ EntryOrder(r, s) /\ EntryOrder(s, t)
        BY <2>3, <3>1
      <4>2. EntryOrder(r, t)
        BY <1>1, <4>1 DEF EntryOrder
      <4>3. QED
        BY <4>1, <4>2
    <3>2. QED
      BY <3>1
  <2> HIDE DEF below
  <2>4. QED
    BY <2>1, <2>2, <2>3 DEF TotalOrder
<1>4. Sorted(S) = Arranged(S, below)
  BY DEF Sorted
<1> HIDE DEF below
<1>5. Listing(Arranged(S, below), S) /\ ToSet(Arranged(S, below)) = S
  BY <1>3, ArrangedLists
<1>6. Listing(Arranged(S, below), EverListed)
  BY <1>5, ListingWidens
<1>7. QED
  BY <1>4, <1>5, <1>6

(***************************************************************************)
(* Where Detect leads.                                                     *)
(***************************************************************************)

KeptPlaces ==
  {i \in DOMAIN store.candidates :
     store.style = "pi" \/ ~\E j \in 1..(i - 1) : store.candidates[j].path = store.candidates[i].path}
FoundPlaces ==
  {i \in DOMAIN Candidates :
     Candidates[i].bases # <<>> /\ ~(Candidates[i].default /\ Candidates[i].link)}
FoundRoots == At(Candidates, FoundPlaces)
FoundBases == FlattenSeq([i \in DOMAIN FoundRoots |-> FoundRoots[i].bases])
KeptBases ==
  {i \in DOMAIN FoundBases :
     store.style \in {"claude", "codex"} \/ ~\E j \in 1..(i - 1) : FoundBases[j] = FoundBases[i]}

LEMMA RootsAre == Roots = At(FoundBases, KeptBases) /\ Candidates = At(store.candidates, KeptPlaces)
BY DEF Roots, FoundBases, KeptBases, FoundRoots, FoundPlaces, Candidates, KeptPlaces

CandidateType == [path : Nat, default : BOOLEAN, link : BOOLEAN, bases : Seq(Nat)]

\* What is selected has places of its own in the list.
Picks(kept, list, P) ==
  \E place \in [DOMAIN kept -> P] :
    /\ \A n \in DOMAIN kept : kept[n] = list[place[n]]
    /\ \A m, n \in DOMAIN kept : m # n => place[m] # place[n]

LEMMA AtKeeps ==
  ASSUME NEW S, NEW list \in Seq(S), NEW P \in SUBSET (DOMAIN list)
  PROVE  /\ At(list, P) \in Seq(S) /\ ToSet(At(list, P)) = {list[p] : p \in P}
         /\ Picks(At(list, P), list, P)
<1> DEFINE kept == At(list, P)
           n == Cardinality(P)
<1>1. DOMAIN list = 1..Len(list) /\ Len(list) \in Nat
  OBVIOUS
<1>2. IsFiniteSet(P) /\ P \in SUBSET Nat
  <2>1. IsFiniteSet(1..Len(list))
    BY <1>1, NumbersTo
  <2>2. QED
    BY <1>1, <2>1, FS_Subset
<1>3. n \in Nat
  BY <1>2, FS_CardinalityType
<1>4. PICK place \in [1..n -> P] :
        /\ kept = [k \in 1..n |-> list[place[k]]]
        /\ \A p \in P : \E k \in 1..n : place[k] = p
        /\ \A m, k \in 1..n : m < k => place[m] < place[k]
  BY <1>2, AtPlaces
<1> HIDE DEF kept, n
<1>5. DOMAIN kept = 1..n /\ \A k \in 1..n : kept[k] = list[place[k]] /\ kept[k] \in S
  BY <1>1, <1>4
<1>6. kept \in Seq(S)
  <2>1. kept \in [1..n -> S]
    BY <1>4, <1>5
  <2>2. QED
    BY <1>3, <2>1
<1>7. ToSet(kept) = {list[p] : p \in P}
  BY <1>4, <1>5 DEF ToSet
<1>8. \A m, k \in 1..n : m # k => place[m] # place[k]
  <2>1. \A k \in 1..n : place[k] \in Nat
    BY <1>2, <1>4
  <2>2. QED
    BY <1>3, <1>4, <2>1
<1>9. /\ place \in [DOMAIN kept -> P]
      /\ \A k \in DOMAIN kept : kept[k] = list[place[k]]
      /\ \A m, k \in DOMAIN kept : m # k => place[m] # place[k]
  BY <1>5, <1>8
<1>10. QED
  BY <1>6, <1>7, <1>9 DEF kept, Picks

LEMMA CandidatesAre ==
  ASSUME IsWalk(store)
  PROVE  /\ Candidates \in Seq(CandidateType) /\ FoundRoots \in Seq(CandidateType)
         /\ ToSet(FoundRoots) \subseteq Leading
         /\ \A c \in Leading : c.bases # <<>> => \E d \in ToSet(FoundRoots) : d.bases = c.bases
<1> DEFINE all == store.candidates
           kept == Candidates
<1>1. all \in Seq(CandidateType) /\ Len(all) \in Nat /\ DOMAIN all = 1..Len(all)
  BY DEF IsWalk, CandidateType
<1>2. KeptPlaces \in SUBSET (DOMAIN all) /\ kept = At(all, KeptPlaces)
  BY RootsAre DEF KeptPlaces
<1>3. kept \in Seq(CandidateType) /\ ToSet(kept) = {all[p] : p \in KeptPlaces}
  BY <1>1, <1>2, AtKeeps
<1>4. FoundPlaces \in SUBSET (DOMAIN kept)
  BY DEF FoundPlaces
<1>5. FoundRoots \in Seq(CandidateType) /\ ToSet(FoundRoots) = {kept[p] : p \in FoundPlaces}
  BY <1>3, <1>4, AtKeeps DEF FoundRoots
<1>6. ToSet(kept) = {kept[p] : p \in DOMAIN kept}
  BY DEF ToSet
<1>7. ToSet(FoundRoots) = {c \in ToSet(kept) : c.bases # <<>> /\ ~(c.default /\ c.link)}
  BY <1>5, <1>6 DEF FoundPlaces
<1>8. ToSet(FoundRoots) \subseteq Leading
  BY <1>2, <1>3, <1>7 DEF Leading, ToSet
<1>9. ASSUME NEW c \in Leading, c.bases # <<>> PROVE \E d \in ToSet(FoundRoots) : d.bases = c.bases
  <2>1. PICK i \in DOMAIN all : all[i] = c
    BY DEF Leading, ToSet
  <2> DEFINE Twins == {j \in 1..Len(all) : all[j].path = c.path}
  <2>2. i \in Twins
    BY <1>1, <2>1
  <2>3. PICK j \in Twins : \A k \in Twins : j <= k
    <3>1. Twins \in SUBSET Nat /\ Twins # {}
      BY <2>2
    <3> HIDE DEF Twins
    <3>2. QED
      BY <3>1, LeastNumber
  <2>4. j \in DOMAIN all /\ all[j].path = c.path /\ j <= i
    BY <1>1, <2>2, <2>3
  <2>5. j \in KeptPlaces
    <3>1. ASSUME NEW k \in 1..(j - 1), all[k].path = all[j].path PROVE FALSE
      <4>1. k \in Twins
        BY <1>1, <2>4, <3>1
      <4>2. j <= k
        BY <2>3, <4>1
      <4>3. QED
        BY <1>1, <2>4, <4>2
    <3>2. QED
      BY <2>4, <3>1 DEF KeptPlaces
  <2>6. all[j].bases = c.bases
    BY <2>1, <2>4 DEF IsWalk
  <2>7. ~(all[j].default /\ all[j].link)
    <3>1. CASE j = i
      BY <2>1, <3>1 DEF Leading
    <3>2. CASE j # i
      <4>1. j < i
        BY <1>1, <2>1, <2>4, <3>2
      <4>2. all[j].default => i <= j
        BY <2>1, <2>4 DEF IsWalk
      <4>3. QED
        BY <1>1, <2>4, <4>1, <4>2
    <3>3. QED
      BY <3>1, <3>2
  <2>8. all[j] \in ToSet(FoundRoots)
    BY <1>3, <1>7, <1>9, <2>5, <2>6, <2>7
  <2>9. QED
    BY <2>6, <2>8
<1>10. QED
  BY <1>3, <1>5, <1>8, <1>9

LEMMA ConcatHolds ==
  ASSUME NEW S, NEW s \in Seq(S), NEW t \in Seq(S)
  PROVE  s \o t \in Seq(S) /\ ToSet(s \o t) = ToSet(s) \cup ToSet(t)
<1> DEFINE m == Len(s)
           k == Len(t)
           all == s \o t
<1>1. m \in Nat /\ k \in Nat /\ all \in Seq(S) /\ Len(all) = m + k
      /\ (\A i \in 1..m : all[i] = s[i]) /\ (\A i \in 1..k : all[m + i] = t[i])
  OBVIOUS
<1>2. ToSet(s) = {s[i] : i \in 1..m} /\ ToSet(t) = {t[i] : i \in 1..k} /\ ToSet(all) = {all[i] : i \in 1..(m + k)}
  BY <1>1, PiToSetIs
<1> HIDE DEF m, k, all
<1>3. ASSUME NEW i \in 1..(m + k) PROVE all[i] \in ToSet(s) \cup ToSet(t)
  <2>1. CASE i \in 1..m
    BY <1>1, <1>2, <2>1
  <2>2. CASE i \notin 1..m
    <3> DEFINE j == i - m
    <3>1. j \in 1..k /\ m + j = i
      BY <1>1, <2>2
    <3> HIDE DEF j
    <3>2. all[i] = t[j]
      BY <1>1, <3>1
    <3>3. QED
      BY <1>2, <3>1, <3>2
  <2>3. QED
    BY <2>1, <2>2
<1>4. \A i \in 1..m : all[i] \in ToSet(all) /\ all[i] = s[i]
  BY <1>1, <1>2
<1>5. ASSUME NEW i \in 1..k PROVE t[i] \in ToSet(all)
  <2>1. m + i \in 1..(m + k) /\ all[m + i] = t[i]
    BY <1>1
  <2>2. QED
    BY <1>2, <2>1
<1>6. ToSet(all) = ToSet(s) \cup ToSet(t)
  BY <1>2, <1>3, <1>4, <1>5
<1>7. QED
  BY <1>1, <1>6 DEF all

\* What the first n of the sequences hold; whether all of them are lists with
\* nothing in common.
Held(seqs, n) == UNION {ToSet(seqs[i]) : i \in 1..n}
Apart(seqs, n) ==
  /\ \A i \in 1..n : Once(seqs[i], Len(seqs[i]))
  /\ \A i, j \in 1..n : i # j => ToSet(seqs[i]) \cap ToSet(seqs[j]) = {}

LEMMA FlattenHolds ==
  ASSUME NEW S, NEW seqs \in Seq(Seq(S))
  PROVE  /\ ToSet(FlattenSeq(seqs)) = Held(seqs, Len(seqs))
         /\ Apart(seqs, Len(seqs)) => Once(FlattenSeq(seqs), Len(FlattenSeq(seqs)))
<1> DEFINE N == Len(seqs)
           f == Flattening(seqs)
           Sound(i) == /\ f[i] \in Seq(S) /\ ToSet(f[i]) = Held(seqs, i)
                       /\ Apart(seqs, N) => Once(f[i], Len(f[i]))
           Good == {i \in Nat : i = 0 \/ Sound(i)}
<1>0. N \in Nat /\ \A i \in 1..N : seqs[i] \in Seq(S)
  OBVIOUS
<1>1. Flattens(f, seqs, N)
  BY <1>0, FlatteningIs
<1>2. N # 0 => FlattenSeq(seqs) = f[N]
  BY FlattenSeqIs
<1>3. N = 0 => FlattenSeq(seqs) = <<>>
  BY DEF FlattenSeq
<1> HIDE DEF f, N
<1>4. Inductive(Good, N)
  <2> SUFFICES ASSUME NEW i \in Nat, i < N, i \in Good PROVE Sound(i + 1)
    BY DEF Inductive
  <2> DEFINE k == i + 1
  <2>1. k \in 1..N /\ (k = 1 <=> i = 0) /\ 1..k = 1..i \cup {k} /\ k \notin 1..i
    BY <1>0
  <2>2. f[k] = IF i = 0 THEN seqs[k] ELSE f[i] \o seqs[k]
    BY <1>0, <1>1, FlattensAt
  <2> HIDE DEF k
  <2>3. seqs[k] \in Seq(S) /\ (Apart(seqs, N) => Once(seqs[k], Len(seqs[k])))
    BY <1>0, <2>1 DEF Apart
  <2>4. Held(seqs, k) = Held(seqs, i) \cup ToSet(seqs[k])
    BY <2>1 DEF Held
  <2>5. CASE i = 0
    <3>1. f[k] = seqs[k]
      BY <2>2, <2>5
    <3>2. Held(seqs, i) = {}
      BY <2>5 DEF Held
    <3>3. QED
      BY <2>3, <2>4, <3>1, <3>2 DEF k
  <2>6. CASE i # 0
    <3> DEFINE s == f[i]
               t == seqs[k]
    <3>1. s \in Seq(S) /\ ToSet(s) = Held(seqs, i) /\ (Apart(seqs, N) => Once(s, Len(s)))
      BY <2>6
    <3>2. f[k] = s \o t /\ t \in Seq(S)
      BY <2>2, <2>3, <2>6, Zenon
    <3>3. ASSUME Apart(seqs, N) PROVE ToSet(s) \cap ToSet(t) = {}
      <4>1. \A j \in 1..i : j \in 1..N /\ j # k
        BY <1>0, <2>1
      <4>2. \A j \in 1..i : ToSet(seqs[j]) \cap ToSet(t) = {}
        BY <2>1, <3>3, <4>1 DEF Apart
      <4>3. QED
        BY <3>1, <4>2 DEF Held
    <3> HIDE DEF s, t
    <3>4. s \o t \in Seq(S) /\ ToSet(s \o t) = ToSet(s) \cup ToSet(t)
      BY <3>1, <3>2, ConcatHolds
    <3>5. Apart(seqs, N) => Once(s \o t, Len(s \o t))
      BY <2>3, <3>1, <3>2, <3>3, OnceConcat DEF t
    <3>6. ToSet(s \o t) = Held(seqs, k)
      BY <2>4, <3>1, <3>4 DEF t
    <3>7. QED
      BY <3>2, <3>4, <3>5, <3>6 DEF k
  <2>7. QED
    BY <2>5, <2>6
<1>5. N # 0 => Sound(N)
  <2> HIDE DEF Good
  <2>1. N \in Good
    BY <1>0, <1>4, Upward
  <2>2. QED
    BY <1>0, <2>1 DEF Good
<1>6. CASE N = 0
  <2>1. ToSet(<<>>) = {} /\ Once(<<>>, Len(<<>>))
    BY DEF ToSet, Once
  <2>2. Held(seqs, 0) = {}
    BY DEF Held
  <2>3. QED
    BY <1>3, <1>6, <2>1, <2>2 DEF N
<1>7. CASE N # 0
  BY <1>2, <1>5, <1>7 DEF N
<1>8. QED
  BY <1>6, <1>7

\* Every place a candidate leads to is walked, and once, unless Claude Code or
\* Codex find it by two paths.
LEMMA RootsLead ==
  ASSUME IsWalk(store)
  PROVE  /\ Roots \in Seq(Nat) /\ ToSet(Roots) \subseteq DOMAIN store.bases
         /\ \A c \in Leading : ToSet(c.bases) \subseteq ToSet(Roots)
         /\ Single => \A i, j \in DOMAIN Roots : Roots[i] = Roots[j] => i = j
<1> DEFINE all == store.candidates
           found == FoundRoots
           seqs == [i \in DOMAIN found |-> found[i].bases]
           N == Len(found)
           flat == FoundBases
<1>1. /\ found \in Seq(CandidateType) /\ ToSet(found) \subseteq Leading
      /\ \A c \in Leading : c.bases # <<>> => \E d \in ToSet(found) : d.bases = c.bases
  BY CandidatesAre
<1>2. N \in Nat /\ DOMAIN found = 1..N /\ ToSet(found) = {found[i] : i \in 1..N}
  BY <1>1 DEF ToSet
<1>3. seqs \in Seq(Seq(Nat)) /\ Len(seqs) = N /\ \A i \in 1..N : seqs[i] = found[i].bases
  <2>1. ASSUME NEW i \in 1..N PROVE found[i].bases \in Seq(Nat)
    <3>1. found[i] \in CandidateType
      BY <1>1, <1>2
    <3>2. QED
      BY <3>1 DEF CandidateType
  <2>2. seqs = [i \in 1..N |-> found[i].bases]
    BY <1>2
  <2>3. seqs \in [1..N -> Seq(Nat)]
    BY <2>1, <2>2
  <2>4. seqs \in Seq(Seq(Nat)) /\ Len(seqs) = N
    <3> HIDE DEF seqs
    <3>1. QED
      BY <1>2, <2>3
  <2>5. QED
    BY <2>2, <2>4
<1>4. flat = FlattenSeq(seqs)
  BY DEF FoundBases
<1> HIDE DEF found, seqs, flat, N
<1>5. flat \in Seq(Nat) /\ ToSet(flat) = Held(seqs, N) /\ (Apart(seqs, N) => Once(flat, Len(flat)))
  BY <1>3, <1>4, FlattenType, FlattenHolds
<1>6. KeptBases \in SUBSET (DOMAIN flat) /\ Roots = At(flat, KeptBases)
  BY RootsAre DEF KeptBases, flat
<1>7. /\ Roots \in Seq(Nat) /\ ToSet(Roots) = {flat[p] : p \in KeptBases}
      /\ Picks(Roots, flat, KeptBases)
  BY <1>5, <1>6, AtKeeps
<1>8. PICK place \in [DOMAIN Roots -> KeptBases] :
        /\ \A n \in DOMAIN Roots : Roots[n] = flat[place[n]]
        /\ \A m, n \in DOMAIN Roots : m # n => place[m] # place[n]
  BY <1>7 DEF Picks
<1>9. DOMAIN flat = 1..Len(flat) /\ Len(flat) \in Nat /\ ToSet(flat) = {flat[p] : p \in 1..Len(flat)}
  BY <1>5 DEF ToSet
<1>10. ToSet(Roots) = ToSet(flat)
  <2>1. ASSUME NEW p \in 1..Len(flat) PROVE \E q \in KeptBases : flat[q] = flat[p]
    <3> DEFINE Twins == {q \in 1..Len(flat) : flat[q] = flat[p]}
    <3>1. Twins \in SUBSET Nat /\ p \in Twins
      BY <1>9
    <3> HIDE DEF Twins
    <3>2. PICK q \in Twins : \A r \in Twins : q <= r
      BY <3>1, LeastNumber
    <3>3. q \in 1..Len(flat) /\ flat[q] = flat[p]
      BY <3>2 DEF Twins
    <3>4. ASSUME NEW r \in 1..(q - 1), flat[r] = flat[q] PROVE FALSE
      <4>1. r \in Twins
        BY <1>9, <3>3, <3>4 DEF Twins
      <4>2. q <= r
        BY <3>2, <4>1
      <4>3. QED
        BY <1>9, <3>3, <4>2
    <3>5. q \in KeptBases
      BY <1>9, <3>3, <3>4 DEF KeptBases, flat
    <3>6. QED
      BY <3>3, <3>5
  <2>2. QED
    BY <1>6, <1>7, <1>9, <2>1
<1>11. ASSUME NEW c \in Leading
       PROVE  /\ c.bases \in Seq(Nat) /\ ToSet(c.bases) \subseteq DOMAIN store.bases
              /\ Once(c.bases, Len(c.bases))
  <2>1. PICK i \in DOMAIN all : all[i] = c
    BY DEF Leading, ToSet
  <2>2. c.bases \in Seq(Nat)
    <3>1. all \in Seq(CandidateType)
      BY DEF IsWalk, CandidateType
    <3>2. all[i] \in CandidateType
      BY <2>1, <3>1
    <3>3. QED
      BY <2>1, <3>2 DEF CandidateType
  <2>3. \A n \in DOMAIN c.bases : c.bases[n] \in DOMAIN store.bases
    BY <2>1 DEF IsWalk
  <2>4. \A m, n \in DOMAIN c.bases : c.bases[m] = c.bases[n] => m = n
    BY <2>1 DEF IsWalk
  <2>5. QED
    BY <2>2, <2>3, <2>4 DEF ToSet, Once
<1>12. ToSet(Roots) \subseteq DOMAIN store.bases
  <2>1. \A i \in 1..N : found[i] \in Leading
    BY <1>1, <1>2
  <2>2. \A i \in 1..N : ToSet(seqs[i]) \subseteq DOMAIN store.bases
    BY <1>3, <1>11, <2>1
  <2>3. QED
    BY <1>5, <1>10, <2>2 DEF Held
<1>13. ASSUME NEW c \in Leading PROVE ToSet(c.bases) \subseteq ToSet(Roots)
  <2>1. CASE c.bases = <<>>
    <3>1. ToSet(c.bases) = {}
      BY <2>1 DEF ToSet
    <3>2. QED
      BY <3>1
  <2>2. CASE c.bases # <<>>
    <3>1. PICK i \in 1..N : found[i].bases = c.bases
      BY <1>1, <1>2, <2>2
    <3>2. ToSet(c.bases) \subseteq Held(seqs, N)
      BY <1>3, <3>1 DEF Held
    <3>3. QED
      BY <1>5, <1>10, <3>2
  <2>3. QED
    BY <2>1, <2>2
<1>14. CASE store.style \notin {"claude", "codex"}
  <2>1. ASSUME NEW i \in DOMAIN Roots, NEW j \in DOMAIN Roots, Roots[i] = Roots[j], i # j PROVE FALSE
    <3> DEFINE p == place[i]
               q == place[j]
    <3>1. p \in KeptBases /\ q \in KeptBases /\ p # q /\ flat[p] = flat[q]
      BY <1>8, <2>1
    <3>2. /\ p \in 1..Len(flat) /\ q \in 1..Len(flat)
          /\ \A r \in 1..(p - 1) : flat[r] # flat[p]
          /\ \A r \in 1..(q - 1) : flat[r] # flat[q]
      BY <1>9, <1>14, <3>1 DEF KeptBases, flat
    <3> HIDE DEF p, q
    <3>3. p \in 1..(q - 1) \/ q \in 1..(p - 1)
      BY <1>9, <3>1, <3>2
    <3>4. QED
      BY <3>1, <3>2, <3>3
  <2>2. QED
    BY <1>7, <1>10, <1>12, <1>13, <2>1
<1>15. CASE store.style \in {"claude", "codex"} /\ ~Aliased
  <2>1. PICK spot \in [1..N -> FoundPlaces] :
          /\ \A i \in 1..N : found[i] = Candidates[spot[i]]
          /\ \A i, j \in 1..N : i # j => spot[i] # spot[j]
    <3>1. FoundPlaces \in SUBSET (DOMAIN Candidates) /\ Candidates \in Seq(CandidateType)
      BY CandidatesAre DEF FoundPlaces
    <3>2. found = At(Candidates, FoundPlaces)
      BY DEF found, FoundRoots
    <3>3. Picks(found, Candidates, FoundPlaces)
      BY <3>1, <3>2, AtKeeps
    <3>4. QED
      BY <1>2, <3>3 DEF Picks
  <2>2. PICK post \in [DOMAIN Candidates -> KeptPlaces] :
          /\ \A i \in DOMAIN Candidates : Candidates[i] = all[post[i]]
          /\ \A i, j \in DOMAIN Candidates : i # j => post[i] # post[j]
    <3>1. KeptPlaces \in SUBSET (DOMAIN all) /\ all \in Seq(CandidateType)
      BY DEF KeptPlaces, IsWalk, CandidateType
    <3>2. Candidates = At(all, KeptPlaces)
      BY RootsAre
    <3>3. Picks(Candidates, all, KeptPlaces)
      BY <3>1, <3>2, AtKeeps
    <3>4. QED
      BY <3>3 DEF Picks
  <2>3. ASSUME NEW i \in 1..N, NEW j \in 1..N, i # j PROVE found[i].path # found[j].path
    <3> DEFINE p == post[spot[i]]
               q == post[spot[j]]
    <3>1. spot[i] \in DOMAIN Candidates /\ spot[j] \in DOMAIN Candidates /\ spot[i] # spot[j]
      BY <2>1, <2>3 DEF FoundPlaces
    <3>2. p \in KeptPlaces /\ q \in KeptPlaces /\ p # q /\ found[i] = all[p] /\ found[j] = all[q]
      BY <2>1, <2>2, <3>1
    <3> HIDE DEF p, q
    <3>3. all \in Seq(CandidateType)
      BY DEF IsWalk, CandidateType
    <3>4. /\ p \in 1..Len(all) /\ q \in 1..Len(all) /\ Len(all) \in Nat
          /\ \A r \in 1..(p - 1) : all[r].path # all[p].path
          /\ \A r \in 1..(q - 1) : all[r].path # all[q].path
      BY <1>15, <3>2, <3>3 DEF KeptPlaces
    <3>5. p \in 1..(q - 1) \/ q \in 1..(p - 1)
      BY <3>2, <3>4
    <3>6. QED
      BY <3>2, <3>4, <3>5
  <2>4. ASSUME NEW i \in 1..N, NEW j \in 1..N, i # j PROVE ToSet(seqs[i]) \cap ToSet(seqs[j]) = {}
    <3>1. found[i] \in Leading /\ found[j] \in Leading /\ found[i].path # found[j].path
      BY <1>1, <1>2, <2>3, <2>4
    <3>2. QED
      BY <1>3, <1>15, <3>1 DEF Aliased
  <2>5. \A i \in 1..N : Once(seqs[i], Len(seqs[i]))
    BY <1>1, <1>2, <1>3, <1>11
  <2>6. Once(flat, Len(flat))
    BY <1>5, <2>4, <2>5 DEF Apart
  <2>7. ASSUME NEW i \in DOMAIN Roots, NEW j \in DOMAIN Roots, Roots[i] = Roots[j] PROVE i = j
    <3>1. place[i] \in 1..Len(flat) /\ place[j] \in 1..Len(flat) /\ flat[place[i]] = flat[place[j]]
      BY <1>6, <1>8, <1>9, <2>7
    <3>2. place[i] = place[j]
      BY <2>6, <3>1 DEF Once
    <3>3. QED
      BY <1>8, <3>2
  <2>8. QED
    BY <1>7, <1>10, <1>12, <1>13, <2>7
<1>16. QED
  BY <1>7, <1>12, <1>13, <1>14, <1>15 DEF Single

(***************************************************************************)
(* What a step does to the walk.                                           *)
(***************************************************************************)

Ahead == Head(reader.names)
There(e) == Place(e) \in {Place(f) : f \in Entries}
Looks(e) == store.style = "legacy" \/ e.kind = "transcript"

\* What no step of Discover changes.
WalkRests ==
  UNCHANGED <<store, seen, emitted, reader.partial, reader.malformed, reader.changed>>

WalkQuits ==
  /\ WalkRests /\ UNCHANGED reader.found
  /\ reader.pc # "done" /\ reader'.pc = "done" /\ reader'.error \in Errors \ {"none"}

WalkLeads ==
  /\ WalkRests /\ UNCHANGED <<reader.error, reader.base, reader.directories, reader.names, reader.found>>
  /\ reader.pc = "detect" /\ reader'.pc = "base" /\ reader'.roots = Roots

WalkStops ==
  /\ WalkRests
  /\ UNCHANGED <<reader.error, reader.roots, reader.base, reader.directories, reader.names, reader.found>>
  /\ reader.pc = "base" /\ reader'.pc = "done" /\ reader.base > Len(reader.roots)

WalkLists ==
  /\ WalkRests /\ UNCHANGED <<reader.error, reader.roots, reader.base, reader.found>>
  /\ reader.pc = "base" /\ reader'.pc = "entries" /\ ~(reader.base > Len(reader.roots))
  /\ \/ /\ store.style = "legacy" /\ UNCHANGED reader.directories
        /\ reader'.names = Sorted({e \in Entries : e.kind # "other"})
     \/ /\ store.style # "legacy" /\ UNCHANGED reader.names
        /\ reader'.directories = Ascending(Directories)

WalkEnters ==
  /\ WalkRests /\ UNCHANGED <<reader.error, reader.roots, reader.base, reader.found, reader.pc>>
  /\ reader.pc = "entries" /\ reader.names = <<>> /\ reader.directories # <<>>
  /\ reader'.directories = Tail(reader.directories)
  /\ reader'.names = ListedIn(Head(reader.directories))

WalkPasses ==
  /\ WalkRests /\ UNCHANGED <<reader.error, reader.roots, reader.base, reader.found, reader.pc, reader.directories>>
  /\ reader.pc = "entries" /\ reader.names # <<>> /\ reader'.names = Tail(reader.names)
  /\ ~Looks(Ahead) \/ (store.style = "legacy" /\ ~There(Ahead))

WalkFinds ==
  /\ WalkRests /\ UNCHANGED <<reader.error, reader.roots, reader.base, reader.pc, reader.directories>>
  /\ reader.pc = "entries" /\ reader.names # <<>> /\ reader'.names = Tail(reader.names)
  /\ Looks(Ahead) /\ There(Ahead)
  /\ reader'.found = Append(reader.found, <<Base, Place(Ahead)>>)

WalkGoesOn ==
  /\ WalkRests /\ UNCHANGED <<reader.error, reader.roots, reader.found>>
  /\ reader.pc = "entries" /\ reader'.pc = "base" /\ reader'.base = reader.base + 1
  /\ reader'.directories = <<>> /\ reader'.names = <<>>
  /\ \/ reader.names = <<>> /\ reader.directories = <<>>
     \/ /\ store.style = "claude" /\ reader.names = <<>> /\ reader.directories # <<>>
        /\ Head(reader.directories) \notin Directories
     \/ /\ store.style = "claude" /\ reader.names # <<>> /\ Looks(Ahead) /\ ~There(Ahead)

WalkWrites ==
  /\ UNCHANGED <<reader, emitted>> /\ IsSeen(seen)' /\ seen'.before = seen.before
  /\ \E base \in DOMAIN store.bases :
       \/ /\ seen' = seen
          /\ \E e \in Additions["walk"] : store' = [store EXCEPT !.bases[base] = @ \cup {e}]
       \/ \E e \in store.bases[base] :
            /\ store' = [store EXCEPT !.bases[base] = @ \ {e}]
            /\ seen'.touched = seen.touched \cup {<<base, Place(e)>>}

WalkMove ==
  \/ UNCHANGED <<reader, emitted, seen, store>> \/ WalkWrites
  \/ WalkQuits \/ WalkLeads \/ WalkStops \/ WalkLists
  \/ WalkEnters \/ WalkPasses \/ WalkFinds \/ WalkGoesOn

LEMMA WalkMoves ==
  ASSUME WalkType, harness = "walk", [Next]_vars
  PROVE  WalkMove /\ IsWalkReader(reader)' /\ IsSeen(seen)'
<1>1. IsWalkReader(reader) /\ IsSeen(seen)
  BY DEF WalkType
<1>2. CASE WalkFails
  <2>1. PICK code \in Errors \ {"none"} : reader' = [reader EXCEPT !.pc = "done", !.error = code]
    BY <1>2 DEF WalkFails, Errors
  <2>2. UNCHANGED <<emitted, seen, store>> /\ reader.pc # "done"
    BY <1>2 DEF WalkFails, Running
  <2>3. IsWalkReader(reader)' /\ WalkQuits
    BY <1>1, <2>1, <2>2 DEF IsWalkReader, WalkFields, WalkQuits, WalkRests
  <2>4. QED
    BY <1>1, <2>2, <2>3 DEF WalkMove
<1>3. CASE WalkDetects
  <2> DEFINE roots == Roots
  <2>1. reader' = [reader EXCEPT !.pc = "base", !.roots = roots] /\ UNCHANGED <<emitted, seen, store>>
        /\ reader.pc = "detect"
    BY <1>3 DEF WalkDetects
  <2> HIDE DEF roots
  <2>2. IsWalkReader(reader)' /\ reader'.pc = "base" /\ reader'.roots = roots
        /\ UNCHANGED <<reader.partial, reader.malformed, reader.changed, reader.error, reader.base,
                        reader.directories, reader.names, reader.found>>
    BY <1>1, <2>1 DEF IsWalkReader, WalkFields
  <2>3. QED
    BY <1>1, <2>1, <2>2 DEF WalkMove, WalkLeads, WalkRests, roots
<1>4. CASE WalkOpensBase
  <2>0. UNCHANGED <<emitted, seen, store>> /\ reader.pc = "base"
    BY <1>4 DEF WalkOpensBase, Walking
  <2>1. CASE reader.base > Len(reader.roots)
    <3>1. reader' = [reader EXCEPT !.pc = "done"]
      BY <1>4, <2>1 DEF WalkOpensBase
    <3>2. IsWalkReader(reader)' /\ WalkStops
      BY <1>1, <2>0, <2>1, <3>1 DEF IsWalkReader, WalkFields, WalkStops, WalkRests
    <3>3. QED
      BY <1>1, <2>0, <3>2 DEF WalkMove
  <2>2. CASE ~(reader.base > Len(reader.roots)) /\ store.style = "legacy"
    <3> DEFINE names == Sorted({e \in Entries : e.kind # "other"})
    <3>1. reader' = [reader EXCEPT !.pc = "entries", !.names = names]
      BY <1>4, <2>2 DEF WalkOpensBase
    <3> HIDE DEF names
    <3>2. IsWalkReader(reader)' /\ reader'.pc = "entries" /\ reader'.names = names
          /\ UNCHANGED <<reader.partial, reader.malformed, reader.changed, reader.error, reader.roots,
                          reader.base, reader.directories, reader.found>>
      BY <1>1, <3>1 DEF IsWalkReader, WalkFields
    <3>3. WalkLists
      BY <2>0, <2>2, <3>2 DEF WalkLists, WalkRests, names
    <3>4. QED
      BY <1>1, <2>0, <3>2, <3>3 DEF WalkMove
  <2>3. CASE ~(reader.base > Len(reader.roots)) /\ store.style # "legacy"
    <3> DEFINE directories == Ascending(Directories)
    <3>1. reader' = [reader EXCEPT !.pc = "entries", !.directories = directories]
      BY <1>4, <2>3 DEF WalkOpensBase
    <3> HIDE DEF directories
    <3>2. IsWalkReader(reader)' /\ reader'.pc = "entries" /\ reader'.directories = directories
          /\ UNCHANGED <<reader.partial, reader.malformed, reader.changed, reader.error, reader.roots,
                          reader.base, reader.names, reader.found>>
      BY <1>1, <3>1 DEF IsWalkReader, WalkFields
    <3>3. WalkLists
      BY <2>0, <2>3, <3>2 DEF WalkLists, WalkRests, directories
    <3>4. QED
      BY <1>1, <2>0, <3>2, <3>3 DEF WalkMove
  <2>4. QED
    BY <2>1, <2>2, <2>3
<1>5. ASSUME reader' = NextBase, UNCHANGED <<emitted, seen, store>>, reader.pc = "entries",
             \/ reader.names = <<>> /\ reader.directories = <<>>
             \/ /\ store.style = "claude" /\ reader.names = <<>> /\ reader.directories # <<>>
                /\ Head(reader.directories) \notin Directories
             \/ /\ store.style = "claude" /\ reader.names # <<>> /\ Looks(Ahead) /\ ~There(Ahead)
      PROVE  WalkMove /\ IsWalkReader(reader)' /\ IsSeen(seen)'
  <2> DEFINE base == reader.base + 1
  <2>1. reader' = [reader EXCEPT !.pc = "base", !.base = base, !.directories = <<>>, !.names = <<>>]
    BY <1>5 DEF NextBase
  <2> HIDE DEF base
  <2>2. IsWalkReader(reader)' /\ reader'.pc = "base" /\ reader'.base = base
        /\ reader'.directories = <<>> /\ reader'.names = <<>>
        /\ UNCHANGED <<reader.partial, reader.malformed, reader.changed, reader.error, reader.roots, reader.found>>
    BY <1>1, <2>1 DEF IsWalkReader, WalkFields
  <2>3. WalkGoesOn
    BY <1>5, <2>2 DEF WalkGoesOn, WalkRests, base
  <2>4. QED
    BY <1>1, <1>5, <2>2, <2>3 DEF WalkMove
<1>6. ASSUME reader' = [reader EXCEPT !.pc = "done", !.error = "read_error"], UNCHANGED <<emitted, seen, store>>,
             reader.pc # "done"
      PROVE  WalkMove /\ IsWalkReader(reader)' /\ IsSeen(seen)'
  <2>1. IsWalkReader(reader)' /\ WalkQuits
    BY <1>1, <1>6 DEF IsWalkReader, WalkFields, WalkQuits, WalkRests, Errors
  <2>2. QED
    BY <1>1, <1>6, <2>1 DEF WalkMove
<1>7. store.style \in Styles
  BY DEF WalkType, WalkStore, IsWalk
<1>8. CASE WalkEntersDirectory
  <2>0. /\ UNCHANGED <<emitted, seen, store>> /\ reader.pc = "entries"
        /\ reader.names = <<>> /\ reader.directories # <<>>
    BY <1>8 DEF WalkEntersDirectory, Walking
  <2>1. CASE Head(reader.directories) \in Directories
    <3> DEFINE names == ListedIn(Head(reader.directories))
               rest == Tail(reader.directories)
    <3>1. reader' = [reader EXCEPT !.directories = rest, !.names = names]
      BY <1>8, <2>1 DEF WalkEntersDirectory
    <3> HIDE DEF names, rest
    <3>2. IsWalkReader(reader)' /\ reader'.names = names /\ reader'.directories = rest
          /\ UNCHANGED <<reader.partial, reader.malformed, reader.changed, reader.error, reader.pc, reader.roots,
                          reader.base, reader.found>>
      BY <1>1, <3>1 DEF IsWalkReader, WalkFields
    <3>3. WalkEnters
      BY <2>0, <2>1, <3>2 DEF WalkEnters, WalkRests, names, rest
    <3>4. QED
      BY <1>1, <2>0, <3>2, <3>3 DEF WalkMove
  <2>2. CASE Head(reader.directories) \notin Directories
    <3>1. WalkVanished
      BY <1>8, <2>2 DEF WalkEntersDirectory
    <3>2. CASE store.style = "claude"
      <4>1. reader' = NextBase
        BY <3>1, <3>2 DEF WalkVanished
      <4>2. QED
        BY <1>5, <2>0, <2>2, <3>2, <4>1
    <3>3. CASE store.style \in {"codex", "pi"}
      <4>1. reader' = [reader EXCEPT !.pc = "done", !.error = "read_error"]
        BY <3>1, <3>3 DEF WalkVanished
      <4>2. QED
        BY <1>6, <2>0, <4>1
    <3>4. store.style # "legacy"
      BY <2>0 DEF WalkType
    <3>5. QED
      BY <1>7, <3>2, <3>3, <3>4 DEF Styles
  <2>3. QED
    BY <2>1, <2>2
<1>9. CASE WalkVisits
  <2> DEFINE h == Head(reader.names)
             rest == Tail(reader.names)
  <2>0. /\ UNCHANGED <<emitted, seen, store>> /\ reader.pc = "entries" /\ reader.names # <<>> /\ Ahead = h
    BY <1>9 DEF WalkVisits, Walking, Ahead
  <2>1. There(h) <=> <<h.directory, h.name>> \in {<<e.directory, e.name>> : e \in Entries}
    BY DEF There, Place
  <2>2. ASSUME reader' = [reader EXCEPT !.names = rest],
               ~Looks(h) \/ (store.style = "legacy" /\ ~There(h))
        PROVE  WalkMove /\ IsWalkReader(reader)' /\ IsSeen(seen)'
    <3> HIDE DEF rest, h
    <3>1. IsWalkReader(reader)' /\ reader'.names = rest
          /\ UNCHANGED <<reader.partial, reader.malformed, reader.changed, reader.error, reader.pc, reader.roots,
                          reader.base, reader.directories, reader.found>>
      BY <1>1, <2>2 DEF IsWalkReader, WalkFields
    <3>2. WalkPasses
      BY <2>0, <2>2, <3>1 DEF WalkPasses, WalkRests, rest
    <3>3. QED
      BY <1>1, <2>0, <3>1, <3>2 DEF WalkMove
  <2>3. CASE store.style # "legacy" /\ h.kind # "transcript"
    <3>1. reader' = [reader EXCEPT !.names = rest]
      BY <1>9, <2>3 DEF WalkVisits
    <3>2. QED
      BY <2>2, <2>3, <3>1 DEF Looks
  <2>4. CASE Looks(h) /\ ~There(h)
    <3>1. WalkVanished
      BY <1>9, <2>1, <2>4 DEF WalkVisits, Looks
    <3>2. CASE store.style = "claude"
      <4>1. reader' = NextBase
        BY <3>1, <3>2 DEF WalkVanished
      <4>2. QED
        BY <1>5, <2>0, <2>4, <3>2, <4>1
    <3>3. CASE store.style \in {"codex", "pi"}
      <4>1. reader' = [reader EXCEPT !.pc = "done", !.error = "read_error"]
        BY <3>1, <3>3 DEF WalkVanished
      <4>2. QED
        BY <1>6, <2>0, <4>1
    <3>4. CASE store.style = "legacy"
      <4>1. reader' = [reader EXCEPT !.names = rest]
        BY <3>1, <3>4 DEF WalkVanished
      <4>2. QED
        BY <2>2, <2>4, <3>4, <4>1
    <3>5. QED
      BY <1>7, <3>2, <3>3, <3>4 DEF Styles
  <2>5. CASE Looks(h) /\ There(h)
    <3> DEFINE found == Append(reader.found, <<Base, Place(h)>>)
    <3>1. reader' = [reader EXCEPT !.names = rest, !.found = found]
      BY <1>9, <2>1, <2>5 DEF WalkVisits, Looks, Place
    <3> HIDE DEF rest, found, h
    <3>2. IsWalkReader(reader)' /\ reader'.names = rest /\ reader'.found = found
          /\ UNCHANGED <<reader.partial, reader.malformed, reader.changed, reader.error, reader.pc, reader.roots,
                          reader.base, reader.directories>>
      BY <1>1, <3>1 DEF IsWalkReader, WalkFields
    <3>3. WalkFinds
      BY <2>0, <2>5, <3>2 DEF WalkFinds, WalkRests, rest, found
    <3>4. QED
      BY <1>1, <2>0, <3>2, <3>3 DEF WalkMove
  <2> HIDE DEF h
  <2>6. QED
    BY <2>3, <2>4, <2>5 DEF Looks
<1>10. CASE WalkEndsBase
  <2>1. reader' = NextBase /\ UNCHANGED <<emitted, seen, store>> /\ reader.pc = "entries"
        /\ reader.names = <<>> /\ reader.directories = <<>>
    BY <1>10 DEF WalkEndsBase, Walking
  <2>2. QED
    BY <1>5, <2>1
<1>11. CASE WalkHarnessCreates
  BY <1>1, <1>11 DEF WalkHarnessCreates, WalkMove, WalkWrites, IsWalkReader, IsSeen
<1>12. CASE WalkHarnessRemoves
  <2>0. PICK base \in DOMAIN store.bases : \E e \in store.bases[base] :
          /\ store' = [store EXCEPT !.bases[base] = @ \ {e}]
          /\ seen' = [seen EXCEPT !.touched = @ \cup {<<base, Place(e)>>}]
    BY <1>12 DEF WalkHarnessRemoves, Place
  <2>1. PICK e \in store.bases[base] :
          /\ store' = [store EXCEPT !.bases[base] = @ \ {e}]
          /\ seen' = [seen EXCEPT !.touched = @ \cup {<<base, Place(e)>>}]
    BY <2>0
  <2>2. UNCHANGED <<reader, emitted>>
    BY <1>12 DEF WalkHarnessRemoves
  <2>3. IsSeen(seen)' /\ seen'.before = seen.before /\ seen'.touched = seen.touched \cup {<<base, Place(e)>>}
    BY <1>1, <2>1 DEF IsSeen
  <2>4. WalkWrites
    BY <2>1, <2>2, <2>3 DEF WalkWrites
  <2>5. QED
    BY <1>1, <2>2, <2>3, <2>4 DEF WalkMove, IsWalkReader
<1>13. CASE Cancel \/ UNCHANGED vars
  BY <1>1, <1>13 DEF Cancel, vars, WalkMove, IsWalkReader, IsSeen
<1>14. CASE SinkRefuses \/ ReadFails \/ NoticesCancel
  BY <1>14 DEF SinkRefuses, ReadFails, NoticesCancel, SinkPoints, ReadPoints, CancelPoints
<1>15. CASE Parses \/ Writes \/ LegacyHarnessWrites \/ SQLiteHarnessCommits
  BY <1>15 DEF Parses, StatsBefore, Opens, FindsNothing, Fills, StatsAfter, ClaudeReadsLine, CodexReadsLine, EndOfFile,
     PiIndexesLine, PiAnalyzes, PiEmits, PiEnds, LegacyStats, LegacyReadsSession, LegacyListsMessages,
     LegacyReadsMessage, LegacyListsParts, LegacyReadsPart, LegacyStatsAfter,
     SQLiteBegins, SQLiteReadsSession, SQLiteReadsRow, SQLiteEnds, Writes,
     HarnessAppends, HarnessCompletes, HarnessRewrites, HarnessReplaces, HarnessRemoves,
     LegacyHarnessWrites, SQLiteHarnessCommits, Turn, ReadsLines, LineHarnesses
<1>16. QED
  BY <1>2, <1>3, <1>4, <1>8, <1>9, <1>10, <1>11, <1>12, <1>13, <1>14, <1>15
     DEF Next, Discovers, Fails, Harness, Writes

LEMMA WalkWritten ==
  ASSUME WalkType, WalkWrites
  PROVE  /\ WalkStore' /\ store'.style = store.style /\ store'.candidates = store.candidates
         /\ DOMAIN store'.bases = DOMAIN store.bases
         /\ seen.touched \subseteq seen'.touched /\ seen'.before = seen.before
         /\ \A b \in DOMAIN store.bases : \A e \in store.bases[b] :
              <<b, Place(e)>> \notin seen'.touched => e \in store'.bases[b]
<1> DEFINE Bases == Seq(SUBSET EntryRecords)
           C == Seq([path : Nat, default : BOOLEAN, link : BOOLEAN, bases : Seq(Nat)])
<1>1. /\ IsWalk(store) /\ (\A b \in DOMAIN store.bases : store.bases[b] \subseteq EverListed)
      /\ DOMAIN seen.before = DOMAIN store.bases
  BY DEF WalkType, WalkStore
<1>2. /\ store \in [style : Styles, bases : Bases, candidates : C]
      /\ \A b \in DOMAIN store.bases : IsFiniteSet(store.bases[b])
  BY <1>1 DEF IsWalk
<1>3. EverListed \subseteq EntryRecords /\ Additions["walk"] \subseteq EverListed
  BY ListedEntries DEF EverListed
<1>4. PICK base \in DOMAIN store.bases :
         \/ /\ seen' = seen
            /\ \E e \in Additions["walk"] : store' = [store EXCEPT !.bases[base] = @ \cup {e}]
         \/ \E e \in store.bases[base] :
              /\ store' = [store EXCEPT !.bases[base] = @ \ {e}]
              /\ seen'.touched = seen.touched \cup {<<base, Place(e)>>}
  BY DEF WalkWrites
<1>5. ASSUME NEW S \in SUBSET EverListed, IsFiniteSet(S), store' = [store EXCEPT !.bases[base] = S]
      PROVE  /\ store'.style = store.style /\ store'.candidates = store.candidates
             /\ store'.bases = [store.bases EXCEPT ![base] = S] /\ IsWalk(store)'
             /\ DOMAIN store'.bases = DOMAIN store.bases
             /\ \A b \in DOMAIN store.bases : store'.bases[b] \subseteq EverListed
  <2>1. store'.style = store.style /\ store'.candidates = store.candidates
        /\ store'.bases = [store.bases EXCEPT ![base] = S]
        /\ store' = [style |-> store'.style, bases |-> store'.bases, candidates |-> store'.candidates]
    <3> HIDE DEF Bases, C
    <3>1. QED
      BY <1>2, <1>5
  <2> DEFINE old == store.bases
             new == [old EXCEPT ![base] = S]
  <2>2. old \in Bases /\ S \in SUBSET EntryRecords
    BY <1>2, <1>3
  <2>3. new \in Bases /\ DOMAIN new = DOMAIN old /\ new[base] = S
        /\ \A b \in DOMAIN old : b # base => new[b] = old[b]
    <3> HIDE DEF old
    <3>1. QED
      BY <2>2, <1>4 DEF old
  <2> HIDE DEF old, new, C
  <2>4. \A b \in DOMAIN old : IsFiniteSet(new[b]) /\ new[b] \subseteq EverListed
    BY <1>1, <1>2, <1>5, <2>3 DEF old
  <2>5. store'.bases = new
    BY <2>1 DEF new, old
  <2>6. store' \in [style : Styles, bases : Bases, candidates : C]
    <3> HIDE DEF Bases
    <3>1. store.style \in Styles /\ store.candidates \in C /\ store'.bases \in Bases
      BY <1>2, <2>3, <2>5
    <3>2. QED
      BY <2>1, <3>1
  <2>7. IsWalk(store)'
    <3>1. DOMAIN store'.bases = DOMAIN store.bases /\ \A b \in DOMAIN store'.bases : IsFiniteSet(store'.bases[b])
      BY <2>3, <2>4, <2>5 DEF old
    <3>2. QED
      BY <1>1, <2>1, <2>6, <3>1 DEF IsWalk, Bases, C
  <2>8. QED
    BY <2>1, <2>3, <2>4, <2>5, <2>7 DEF old
<1>6. IsFiniteSet(store.bases[base]) /\ store.bases[base] \in SUBSET EverListed
  BY <1>1, <1>2
<1>7. CASE seen' = seen /\ \E e \in Additions["walk"] : store' = [store EXCEPT !.bases[base] = @ \cup {e}]
  <2>1. PICK e \in Additions["walk"] : store' = [store EXCEPT !.bases[base] = @ \cup {e}]
    BY <1>7
  <2> DEFINE S == store.bases[base] \cup {e}
  <2>2. S \in SUBSET EverListed
    BY <1>3, <1>6
  <2>3. IsFiniteSet(S)
    BY <1>6, FS_AddElement
  <2>4. store' = [store EXCEPT !.bases[base] = S]
    BY <2>1
  <2>5. store.bases[base] \subseteq S
    OBVIOUS
  <2> HIDE DEF S
  <2>6. /\ store'.style = store.style /\ store'.candidates = store.candidates
        /\ store'.bases = [store.bases EXCEPT ![base] = S] /\ IsWalk(store)'
        /\ DOMAIN store'.bases = DOMAIN store.bases
        /\ \A b \in DOMAIN store.bases : store'.bases[b] \subseteq EverListed
    BY <1>5, <2>2, <2>3, <2>4
  <2>7. \A b \in DOMAIN store.bases : store.bases[b] \subseteq store'.bases[b]
    BY <2>5, <2>6
  <2>8. QED
    BY <1>1, <1>7, <2>6, <2>7 DEF WalkStore
<1>8. CASE \E e \in store.bases[base] :
             /\ store' = [store EXCEPT !.bases[base] = @ \ {e}]
             /\ seen'.touched = seen.touched \cup {<<base, Place(e)>>}
  <2>1. PICK e \in store.bases[base] :
             /\ store' = [store EXCEPT !.bases[base] = @ \ {e}]
             /\ seen'.touched = seen.touched \cup {<<base, Place(e)>>}
    BY <1>8
  <2> DEFINE S == store.bases[base] \ {e}
  <2>2. S \in SUBSET EverListed
    BY <1>6
  <2>3. IsFiniteSet(S)
    BY <1>6, FS_Subset
  <2>4. store' = [store EXCEPT !.bases[base] = S]
    BY <2>1
  <2>5. \A f \in store.bases[base] : f # e => f \in S
    OBVIOUS
  <2> HIDE DEF S
  <2>6. /\ store'.style = store.style /\ store'.candidates = store.candidates
        /\ store'.bases = [store.bases EXCEPT ![base] = S] /\ IsWalk(store)'
        /\ DOMAIN store'.bases = DOMAIN store.bases
        /\ \A b \in DOMAIN store.bases : store'.bases[b] \subseteq EverListed
    BY <1>5, <2>2, <2>3, <2>4
  <2>7. \A b \in DOMAIN store.bases : \A f \in store.bases[b] :
          <<b, Place(f)>> \notin seen'.touched => f \in store'.bases[b]
    BY <2>1, <2>5, <2>6
  <2>8. seen'.before = seen.before
    BY DEF WalkWrites
  <2>9. QED
    BY <1>1, <2>1, <2>6, <2>7, <2>8 DEF WalkStore
<1>9. QED
  BY <1>4, <1>7, <1>8

LEMMA RootsStay ==
  ASSUME store'.style = store.style, store'.candidates = store.candidates
  PROVE  Roots' = Roots
BY DEF Roots, Candidates

LEMMA WalkStarting ==
  ASSUME Init, harness = "walk"
  PROVE  WalkType /\ OnceOnly /\ NoneMissed
<1>1. PICK b \in Beginnings["walk"] : store = b.store
  BY DEF Init
<1>2. IsWalk(store)
  BY <1>1, DiscoveryAssumption
<1>3. seen = [before |-> store.bases, lines |-> <<>>, passed |-> <<>>, touched |-> {}, stood |-> TRUE]
  BY DEF Init
<1>4. WalkStore
  <2>1. \A n \in DOMAIN store.bases : store.bases[n] \subseteq EverListed
    BY <1>1 DEF EverListed, ToSet
  <2>2. QED
    BY <1>2, <1>3, <2>1 DEF WalkStore
<1>5. /\ IsWalkReader(reader) /\ reader.pc = "detect" /\ reader.partial = FALSE /\ reader.malformed = 0
      /\ reader.changed = FALSE /\ reader.error = "none" /\ reader.base = 1 /\ reader.found = <<>>
      /\ reader.directories = <<>> /\ reader.names = <<>>
  BY ZenonT(60) DEF Init, Start, With, NoResult, IsWalkReader, WalkFields, LineHarnesses
<1>6. emitted = <<>>
  BY DEF Init
<1>7. Result
  <2>1. reader.partial = FALSE /\ reader.changed = FALSE /\ reader.malformed = 0 /\ reader.error = "none"
    BY <1>5
  <2>2. reader.partial \in BOOLEAN /\ reader.changed \in BOOLEAN
    BY <2>1
  <2>3. reader.malformed \in Nat /\ reader.error \in Errors
    BY <2>1 DEF Errors
  <2>4. QED
    BY <2>2, <2>3 DEF Result
<1>8. WalkType
  BY <1>3, <1>4, <1>5, <1>6, <1>7 DEF WalkType, IsSeen
<1>9. OnceOnly
  BY <1>5 DEF OnceOnly
<1>10. NoneMissed
  BY <1>3, <1>5 DEF NoneMissed, Standing
<1>11. QED
  BY <1>8, <1>9, <1>10

LEMMA ListingNone == ASSUME NEW S PROVE Listing(<<>>, S) /\ ToSet(<<>>) = {}
BY DEF Listing, ToSet

\* The base that is walked, and what is in it.
LEMMA WalkBase ==
  ASSUME WalkType, reader.pc \in {"base", "entries"}, ~(reader.base > Len(reader.roots))
  PROVE  /\ reader.base \in DOMAIN reader.roots /\ Base \in DOMAIN store.bases /\ Base \in Nat
         /\ Entries \in SUBSET EverListed /\ IsFiniteSet(Entries)
         /\ Directories \in SUBSET Nat /\ IsFiniteSet(Directories)
<1>1. /\ WalkStore /\ reader.roots = Roots /\ reader.base \in Nat \ {0}
  BY DEF WalkType
<1>2. Roots \in Seq(Nat) /\ ToSet(Roots) \subseteq DOMAIN store.bases
  BY <1>1, RootsLead DEF WalkStore
<1>3. reader.base \in DOMAIN reader.roots
  BY <1>1, <1>2
<1>4. Base \in DOMAIN store.bases /\ Base \in Nat
  BY <1>1, <1>2, <1>3 DEF Base, ToSet
<1>5. Entries \in SUBSET EverListed /\ IsFiniteSet(Entries)
  BY <1>1, <1>4 DEF WalkStore, IsWalk, Entries
<1>6. Directories \in SUBSET Nat
  BY <1>5, ListedEntries DEF Directories, EntryRecords
<1>7. IsFiniteSet(Directories)
  <2> DEFINE f == [e \in Entries |-> e.directory]
  <2>1. f \in Surjection(Entries, Directories)
    BY DEF Directories, Surjection
  <2>2. QED
    BY <1>5, <2>1, FS_Surjection
<1>8. QED
  BY <1>3, <1>4, <1>5, <1>6, <1>7

LEMMA WalkTypeStep ==
  ASSUME WalkType, WalkMove, IsWalkReader(reader)', IsSeen(seen)'
  PROVE  WalkType'
<1>1. /\ WalkStore /\ Result /\ reader.pc \in {"detect", "base", "entries", "done"} /\ ~reader.changed
      /\ emitted = <<>>
      /\ reader.pc # "detect" /\ reader.error = "none" =>
           /\ reader.roots = Roots
           /\ reader.base \in Nat \ {0}
           /\ Listing(reader.names, EverListed)
           /\ Listing(reader.directories, Nat)
           /\ reader.found \in Seq(Nat \X (Nat \X Nat))
           /\ store.style = "legacy" => reader.directories = <<>>
      /\ reader.pc # "done" => reader.error = "none"
  BY DEF WalkType
<1>2. ASSUME WalkRests, reader'.error \in Errors
      PROVE  WalkStore' /\ Result' /\ ~reader'.changed /\ emitted' = <<>> /\ Roots' = Roots
  <2>1. WalkStore' /\ Result' /\ ~reader'.changed /\ emitted' = <<>>
    BY <1>1, <1>2 DEF WalkRests, WalkStore, Result
  <2>2. Roots' = Roots
    BY <1>2, RootsStay DEF WalkRests
  <2>3. QED
    BY <2>1, <2>2
<1>3. CASE UNCHANGED <<reader, emitted, seen, store>>
  <2>1. Roots' = Roots
    BY <1>3, RootsStay
  <2>2. QED
    BY <1>3, <2>1 DEF WalkType, WalkStore, Result
<1>4. CASE WalkWrites
  <2>1. WalkStore' /\ store'.style = store.style /\ store'.candidates = store.candidates
    BY <1>4, WalkWritten
  <2>2. Roots' = Roots
    BY <2>1, RootsStay
  <2>3. UNCHANGED <<reader, emitted>>
    BY <1>4 DEF WalkWrites
  <2>4. QED
    BY <2>1, <2>2, <2>3 DEF WalkType, Result
<1>5. CASE WalkQuits
  <2>1. WalkRests /\ reader'.error \in Errors \ {"none"} /\ reader'.pc = "done"
    BY <1>5 DEF WalkQuits
  <2>2. WalkStore' /\ Result' /\ ~reader'.changed /\ emitted' = <<>>
    BY <1>2, <2>1
  <2>3. QED
    BY <2>1, <2>2 DEF WalkType
<1>6. CASE WalkLeads
  <2>1. /\ WalkRests /\ UNCHANGED <<reader.error, reader.base, reader.directories, reader.names, reader.found>>
        /\ reader.pc = "detect" /\ reader'.pc = "base" /\ reader'.roots = Roots
    BY <1>6 DEF WalkLeads
  <2>2. reader.error = "none" /\ reader.base = 1 /\ reader.found = <<>> /\ reader.directories = <<>> /\ reader.names = <<>>
    BY <2>1 DEF WalkType
  <2>3. WalkStore' /\ Result' /\ ~reader'.changed /\ emitted' = <<>> /\ Roots' = Roots
    BY <1>2, <2>1, <2>2 DEF Errors
  <2>4. Listing(<<>>, EverListed) /\ Listing(<<>>, Nat) /\ <<>> \in Seq(Nat \X (Nat \X Nat))
    BY ListingNone
  <2>5. QED
    BY <2>1, <2>2, <2>3, <2>4 DEF WalkType
<1>7. CASE WalkStops
  <2>1. /\ WalkRests
        /\ UNCHANGED <<reader.error, reader.roots, reader.base, reader.directories, reader.names, reader.found>>
        /\ reader.pc = "base" /\ reader'.pc = "done" /\ reader.base > Len(reader.roots)
    BY <1>7 DEF WalkStops
  <2>2. reader.error = "none"
    BY <1>1, <2>1
  <2>3. WalkStore' /\ Result' /\ ~reader'.changed /\ emitted' = <<>> /\ Roots' = Roots
    BY <1>2, <2>1, <2>2 DEF Errors
  <2>4. store' = store
    BY <2>1 DEF WalkRests
  <2>5. QED
    BY <1>1, <2>1, <2>2, <2>3, <2>4 DEF WalkType
<1>8. CASE WalkLists
  <2>1. /\ WalkRests /\ UNCHANGED <<reader.error, reader.roots, reader.base, reader.found>>
        /\ reader.pc = "base" /\ reader'.pc = "entries" /\ ~(reader.base > Len(reader.roots))
    BY <1>8 DEF WalkLists
  <2>2. reader.error = "none" /\ reader.directories = <<>> /\ reader.names = <<>>
    BY <1>1, <2>1 DEF WalkType
  <2>3. WalkStore' /\ Result' /\ ~reader'.changed /\ emitted' = <<>> /\ Roots' = Roots /\ store' = store
    BY <1>2, <2>1, <2>2 DEF Errors, WalkRests
  <2>4. Listing(<<>>, EverListed) /\ Listing(<<>>, Nat)
    BY ListingNone
  <2>5. /\ Listing(reader'.names, EverListed) /\ Listing(reader'.directories, Nat)
        /\ store.style = "legacy" => reader'.directories = <<>>
    <3>1. /\ Entries \in SUBSET EverListed /\ IsFiniteSet(Entries)
          /\ Directories \in SUBSET Nat /\ IsFiniteSet(Directories)
      BY <2>1, WalkBase
    <3>2. CASE store.style = "legacy"
      <4> DEFINE X == {e \in Entries : e.kind # "other"}
      <4>1. X \in SUBSET EverListed /\ IsFiniteSet(X)
        BY <3>1, FS_Subset
      <4>2. reader'.names = Sorted(X) /\ reader'.directories = reader.directories
        BY <1>8, <3>2 DEF WalkLists
      <4> HIDE DEF X
      <4>3. Listing(Sorted(X), EverListed)
        BY <4>1, SortedLists
      <4>4. QED
        BY <2>2, <2>4, <4>2, <4>3
    <3>3. CASE store.style # "legacy"
      <4>1. reader'.directories = Ascending(Directories) /\ reader'.names = reader.names
        BY <1>8, <3>3 DEF WalkLists
      <4>2. Listing(Ascending(Directories), Nat)
        BY <3>1, AscendingLists
      <4>3. QED
        BY <2>2, <2>4, <3>3, <4>1, <4>2
    <3>4. QED
      BY <3>2, <3>3
  <2>6. reader'.base <= Len(reader'.roots)
    <3>1. reader.roots = Roots /\ Roots \in Seq(Nat) /\ reader.base \in Nat
      BY <1>1, <2>1, <2>2, RootsLead DEF WalkStore
    <3>2. QED
      BY <2>1, <3>1
  <2>7. QED
    BY <1>1, <2>1, <2>2, <2>3, <2>5, <2>6 DEF WalkType
<1>9. CASE WalkEnters
  <2>1. /\ WalkRests /\ UNCHANGED <<reader.error, reader.roots, reader.base, reader.found, reader.pc>>
        /\ reader.pc = "entries" /\ reader.names = <<>> /\ reader.directories # <<>>
        /\ reader'.directories = Tail(reader.directories)
        /\ reader'.names = ListedIn(Head(reader.directories))
    BY <1>9 DEF WalkEnters
  <2>2. reader.error = "none" /\ reader.base <= Len(reader.roots) /\ Listing(reader.directories, Nat)
        /\ store.style # "legacy"
    BY <1>1, <2>1 DEF WalkType
  <2>3. WalkStore' /\ Result' /\ ~reader'.changed /\ emitted' = <<>> /\ Roots' = Roots /\ store' = store
    BY <1>2, <2>1, <2>2 DEF Errors, WalkRests
  <2>4. Listing(reader'.directories, Nat)
    BY <2>1, <2>2, ListingTail
  <2>5. Listing(reader'.names, EverListed)
    <3> DEFINE X == {e \in Entries : e.directory = Head(reader.directories)}
    <3>1. ~(reader.base > Len(reader.roots))
      <4>1. reader.roots = Roots /\ Roots \in Seq(Nat) /\ reader.base \in Nat
        BY <1>1, <2>1, <2>2, RootsLead DEF WalkStore
      <4>2. QED
        BY <2>2, <4>1
    <3>2. Entries \in SUBSET EverListed /\ IsFiniteSet(Entries)
      BY <2>1, <3>1, WalkBase
    <3>3. X \in SUBSET EverListed /\ IsFiniteSet(X)
      BY <3>2, FS_Subset
    <3>4. reader'.names = Sorted(X)
      BY <2>1 DEF ListedIn
    <3> HIDE DEF X
    <3>5. QED
      BY <3>3, <3>4, SortedLists
  <2>6. QED
    BY <1>1, <2>1, <2>2, <2>3, <2>4, <2>5 DEF WalkType
<1>10. CASE WalkPasses
  <2>1. /\ WalkRests
        /\ UNCHANGED <<reader.error, reader.roots, reader.base, reader.found, reader.pc, reader.directories>>
        /\ reader.pc = "entries" /\ reader.names # <<>> /\ reader'.names = Tail(reader.names)
    BY <1>10 DEF WalkPasses
  <2>2. reader.error = "none" /\ reader.base <= Len(reader.roots) /\ Listing(reader.names, EverListed)
    BY <1>1, <2>1 DEF WalkType
  <2>3. WalkStore' /\ Result' /\ ~reader'.changed /\ emitted' = <<>> /\ Roots' = Roots /\ store' = store
    BY <1>2, <2>1, <2>2 DEF Errors, WalkRests
  <2>4. Listing(reader'.names, EverListed)
    BY <2>1, <2>2, ListingTail
  <2>5. QED
    BY <1>1, <2>1, <2>2, <2>3, <2>4 DEF WalkType
<1>11. CASE WalkFinds
  <2>1. /\ WalkRests /\ UNCHANGED <<reader.error, reader.roots, reader.base, reader.pc, reader.directories>>
        /\ reader.pc = "entries" /\ reader.names # <<>> /\ reader'.names = Tail(reader.names)
        /\ reader'.found = Append(reader.found, <<Base, Place(Ahead)>>)
    BY <1>11 DEF WalkFinds
  <2>2. reader.error = "none" /\ reader.base <= Len(reader.roots) /\ Listing(reader.names, EverListed)
    BY <1>1, <2>1 DEF WalkType
  <2>3. WalkStore' /\ Result' /\ ~reader'.changed /\ emitted' = <<>> /\ Roots' = Roots /\ store' = store
    BY <1>2, <2>1, <2>2 DEF Errors, WalkRests
  <2>4. Listing(reader'.names, EverListed) /\ Ahead \in EverListed
    BY <2>1, <2>2, ListingTail DEF Ahead
  <2>5. <<Base, Place(Ahead)>> \in Nat \X (Nat \X Nat)
    <3>1. ~(reader.base > Len(reader.roots))
      <4>1. reader.roots = Roots /\ Roots \in Seq(Nat) /\ reader.base \in Nat
        BY <1>1, <2>1, <2>2, RootsLead DEF WalkStore
      <4>2. QED
        BY <2>2, <4>1
    <3>2. Base \in Nat
      BY <2>1, <3>1, WalkBase
    <3>3. QED
      BY <2>4, <3>2, ListedEntries DEF EntryRecords, Place
  <2>6. reader'.found \in Seq(Nat \X (Nat \X Nat))
    <3> DEFINE P == Nat \X (Nat \X Nat)
               one == <<Base, Place(Ahead)>>
    <3>1. reader.found \in Seq(P) /\ one \in P
      BY <1>1, <2>1, <2>2, <2>5
    <3> HIDE DEF P, one
    <3>2. Append(reader.found, one) \in Seq(P)
      BY <3>1
    <3>3. QED
      BY <2>1, <3>2 DEF P, one
  <2>7. QED
    BY <1>1, <2>1, <2>2, <2>3, <2>4, <2>6 DEF WalkType
<1>12. CASE WalkGoesOn
  <2>1. /\ WalkRests /\ UNCHANGED <<reader.error, reader.roots, reader.found>>
        /\ reader.pc = "entries" /\ reader'.pc = "base" /\ reader'.base = reader.base + 1
        /\ reader'.directories = <<>> /\ reader'.names = <<>>
    BY <1>12 DEF WalkGoesOn
  <2>2. reader.error = "none"
    BY <1>1, <2>1
  <2>3. WalkStore' /\ Result' /\ ~reader'.changed /\ emitted' = <<>> /\ Roots' = Roots /\ store' = store
    BY <1>2, <2>1, <2>2 DEF Errors, WalkRests
  <2>4. Listing(<<>>, EverListed) /\ Listing(<<>>, Nat) /\ reader'.base \in Nat \ {0}
    BY <1>1, <2>1, <2>2, ListingNone
  <2>5. QED
    BY <1>1, <2>1, <2>2, <2>3, <2>4 DEF WalkType
<1>13. QED
  BY <1>3, <1>4, <1>5, <1>6, <1>7, <1>8, <1>9, <1>10, <1>11, <1>12 DEF WalkMove

(***************************************************************************)
(* Nothing twice.                                                          *)
(***************************************************************************)

\* The parts of OnceOnly.
FoundOnce == \A i, j \in DOMAIN reader.found : reader.found[i] = reader.found[j] => i = j
FoundBehind ==
  \A i \in DOMAIN reader.found :
    \E k \in DOMAIN reader.roots :
      /\ reader.found[i][1] = reader.roots[k]
      /\ k < reader.base \/ (k = reader.base /\ reader.pc = "entries")
FoundAside ==
  \A i \in DOMAIN reader.found : reader.found[i][1] = Base =>
    /\ reader.found[i][2][1] \notin ToSet(reader.directories)
    /\ \A e \in ToSet(reader.names) : reader.found[i][2] # Place(e)
NamesAside == \A e \in ToSet(reader.names) : e.directory \notin ToSet(reader.directories)

LEMMA OnceOnlyIs ==
  /\ OnceOnly <=> /\ FoundOnce /\ (reader.error = "none" => FoundBehind)
                  /\ reader.pc = "entries" => FoundAside /\ NamesAside
  /\ OnceOnly' <=> /\ FoundOnce' /\ (reader'.error = "none" => FoundBehind')
                   /\ reader'.pc = "entries" => FoundAside' /\ NamesAside'
BY DEF OnceOnly, FoundOnce, FoundBehind, FoundAside, NamesAside

LEMMA OnceOnlyStep ==
  ASSUME WalkType, WalkType', Single, OnceOnly, WalkMove
  PROVE  OnceOnly'
<1>1. FoundOnce /\ (reader.error = "none" => FoundBehind) /\ (reader.pc = "entries" => FoundAside /\ NamesAside)
  BY OnceOnlyIs
<1>2. /\ reader.pc # "done" => reader.error = "none"
      /\ reader.pc # "detect" /\ reader.error = "none" =>
           /\ reader.roots = Roots /\ reader.base \in Nat \ {0}
           /\ Listing(reader.names, EverListed) /\ Listing(reader.directories, Nat)
           /\ reader.found \in Seq(Nat \X (Nat \X Nat))
      /\ reader.pc = "detect" => reader.found = <<>>
      /\ reader.pc = "entries" => reader.base <= Len(reader.roots)
      /\ reader.pc \in {"detect", "base"} => reader.directories = <<>> /\ reader.names = <<>>
  BY DEF WalkType
<1>3. Roots \in Seq(Nat) /\ \A i, j \in DOMAIN Roots : Roots[i] = Roots[j] => i = j
  BY RootsLead DEF WalkType, WalkStore
<1>4. CASE UNCHANGED <<reader, emitted, seen, store>> \/ WalkWrites
  <2>1. UNCHANGED reader
    BY <1>4 DEF WalkWrites
  <2>2. QED
    BY <2>1 DEF OnceOnly, Base
<1>5. CASE WalkQuits
  <2>1. UNCHANGED reader.found /\ reader'.error # "none" /\ reader'.pc = "done"
    BY <1>5 DEF WalkQuits
  <2>2. FoundOnce'
    BY <1>1, <2>1 DEF FoundOnce
  <2>3. QED
    BY <2>1, <2>2, OnceOnlyIs
<1>6. CASE WalkLeads
  <2>1. reader.found = <<>> /\ reader'.found = <<>> /\ reader'.pc = "base"
    BY <1>2, <1>6 DEF WalkLeads
  <2>2. QED
    BY <2>1 DEF OnceOnly
<1>7. CASE WalkStops
  <2>1. /\ UNCHANGED <<reader.found, reader.roots, reader.base>> /\ reader.pc = "base" /\ reader'.pc = "done"
        /\ reader.error = "none"
    BY <1>2, <1>7 DEF WalkStops
  <2>2. FoundOnce' /\ FoundBehind'
    BY <1>1, <2>1 DEF FoundOnce, FoundBehind
  <2>3. QED
    BY <2>1, <2>2, OnceOnlyIs
<1>8. CASE WalkLists
  <2>1. /\ WalkRests /\ UNCHANGED <<reader.error, reader.roots, reader.base, reader.found>>
        /\ reader.pc = "base" /\ reader'.pc = "entries" /\ ~(reader.base > Len(reader.roots))
        /\ reader.error = "none" /\ reader.names = <<>> /\ reader.directories = <<>>
    BY <1>2, <1>8 DEF WalkLists
  <2>2. FoundOnce'
    BY <1>1, <2>1 DEF FoundOnce
  <2>3. FoundBehind'
    BY <1>1, <2>1 DEF FoundBehind
  <2>4. FoundAside'
    <3>1. ASSUME NEW i \in DOMAIN reader.found PROVE reader.found[i][1] # Base
      <4>1. PICK n \in DOMAIN reader.roots : reader.found[i][1] = reader.roots[n] /\ n < reader.base
        BY <1>1, <2>1 DEF FoundBehind
      <4>2. reader.base \in DOMAIN reader.roots
        BY <2>1, WalkBase
      <4>3. reader.roots[n] # reader.roots[reader.base]
        BY <1>2, <1>3, <2>1, <4>1, <4>2
      <4>4. QED
        BY <4>1, <4>3 DEF Base
    <3>2. Base' = Base
      BY <2>1 DEF Base
    <3>3. QED
      BY <2>1, <3>1, <3>2 DEF FoundAside
  <2>5. NamesAside'
    <3>1. ToSet(<<>>) = {}
      BY ListingNone
    <3>2. reader'.names = <<>> \/ reader'.directories = <<>>
      BY <1>8, <2>1 DEF WalkLists
    <3>3. QED
      BY <3>1, <3>2 DEF NamesAside
  <2>6. QED
    BY <2>2, <2>3, <2>4, <2>5, OnceOnlyIs
<1>9. CASE WalkEnters
  <2> DEFINE d == Head(reader.directories)
             rest == Tail(reader.directories)
             X == {e \in Entries : e.directory = d}
  <2>1. /\ UNCHANGED <<reader.error, reader.roots, reader.base, reader.found, reader.pc>>
        /\ reader.pc = "entries" /\ reader.directories # <<>> /\ reader.error = "none"
        /\ reader'.directories = rest /\ reader'.names = Sorted(X)
    BY <1>2, <1>9 DEF WalkEnters, ListedIn
  <2>2. d \in ToSet(reader.directories) /\ ToSet(rest) = ToSet(reader.directories) \ {d}
    BY <1>2, <2>1, ListingTail
  <2>3. X \in SUBSET EverListed /\ IsFiniteSet(X)
    <3>1. ~(reader.base > Len(reader.roots))
      BY <1>2, <1>3, <2>1
    <3>2. Entries \in SUBSET EverListed /\ IsFiniteSet(Entries)
      BY <2>1, <3>1, WalkBase
    <3>3. QED
      BY <3>2, FS_Subset
  <2>4. \A e \in X : e.directory = d
    OBVIOUS
  <2> HIDE DEF d, rest, X
  <2>5. ToSet(reader'.names) = X
    BY <2>1, <2>3, SortedLists
  <2>6. Base' = Base
    BY <2>1 DEF Base
  <2>7. FoundOnce' /\ FoundBehind'
    BY <1>1, <2>1 DEF FoundOnce, FoundBehind
  <2>8. FoundAside'
    <3>1. ASSUME NEW i \in DOMAIN reader.found, reader.found[i][1] = Base
          PROVE  reader.found[i][2][1] \notin ToSet(rest) /\ \A e \in X : reader.found[i][2] # Place(e)
      <4>1. reader.found[i][2][1] \notin ToSet(reader.directories)
        BY <1>1, <2>1, <3>1 DEF FoundAside
      <4>2. \A e \in X : Place(e)[1] = d
        BY <2>4 DEF Place
      <4>3. QED
        BY <2>2, <4>1, <4>2
    <3>2. QED
      BY <2>1, <2>5, <2>6, <3>1 DEF FoundAside
  <2>9. NamesAside'
    BY <2>1, <2>2, <2>4, <2>5 DEF NamesAside
  <2>10. QED
    BY <2>7, <2>8, <2>9, OnceOnlyIs
<1>10. ASSUME reader.pc = "entries", reader.names # <<>>
       PROVE  /\ Ahead \in ToSet(reader.names) /\ Ahead \in EverListed
              /\ ToSet(Tail(reader.names)) = ToSet(reader.names) \ {Ahead}
              /\ ToSet(reader.names) \subseteq EverListed
  <2>1. Listing(reader.names, EverListed)
    BY <1>2, <1>10
  <2>2. ToSet(reader.names) \subseteq EverListed
    BY <2>1 DEF Listing, ToSet
  <2>3. QED
    BY <1>10, <2>1, <2>2, ListingTail DEF Ahead
<1>11. CASE WalkPasses
  <2>1. /\ UNCHANGED <<reader.error, reader.roots, reader.base, reader.found, reader.pc, reader.directories>>
        /\ reader.pc = "entries" /\ reader.names # <<>> /\ reader'.names = Tail(reader.names)
        /\ reader.error = "none"
    BY <1>2, <1>11 DEF WalkPasses
  <2>2. ToSet(reader'.names) \subseteq ToSet(reader.names)
    BY <1>10, <2>1
  <2>3. Base' = Base
    BY <2>1 DEF Base
  <2>4. FoundOnce' /\ FoundBehind'
    BY <1>1, <2>1 DEF FoundOnce, FoundBehind
  <2>5. FoundAside' /\ NamesAside'
    BY <1>1, <2>1, <2>2, <2>3 DEF FoundAside, NamesAside
  <2>6. QED
    BY <2>4, <2>5, OnceOnlyIs
<1>12. CASE WalkFinds
  <2> DEFINE one == <<Base, Place(Ahead)>>
             n == Len(reader.found)
  <2>1. /\ UNCHANGED <<reader.error, reader.roots, reader.base, reader.pc, reader.directories>>
        /\ reader.pc = "entries" /\ reader.names # <<>> /\ reader'.names = Tail(reader.names)
        /\ reader'.found = Append(reader.found, one) /\ reader.error = "none"
    BY <1>2, <1>12 DEF WalkFinds
  <2>2. one[1] = Base /\ one[2] = Place(Ahead)
    OBVIOUS
  <2> HIDE DEF one
  <2>3. /\ n \in Nat /\ DOMAIN reader.found = 1..n /\ DOMAIN reader'.found = 1..(n + 1)
        /\ reader'.found[n + 1] = one /\ \A i \in 1..n : reader'.found[i] = reader.found[i]
    BY <1>2, <2>1
  <2> HIDE DEF n
  <2>4. Base' = Base
    BY <2>1 DEF Base
  <2>5. /\ Ahead \in ToSet(reader.names) /\ Ahead \in EverListed
        /\ ToSet(reader'.names) = ToSet(reader.names) \ {Ahead}
        /\ ToSet(reader.names) \subseteq EverListed
    BY <1>10, <2>1
  <2>6. \A i \in 1..n : reader.found[i] # one
    BY <1>1, <2>1, <2>2, <2>3, <2>5 DEF FoundAside
  <2>7. FoundOnce'
    <3>1. ASSUME NEW i \in 1..(n + 1), NEW j \in 1..(n + 1), reader'.found[i] = reader'.found[j] PROVE i = j
      <4>1. i \in 1..n \/ i = n + 1
        BY <2>3
      <4>2. j \in 1..n \/ j = n + 1
        BY <2>3
      <4>3. QED
        BY <1>1, <2>3, <2>6, <3>1, <4>1, <4>2 DEF FoundOnce
    <3>2. QED
      BY <2>3, <3>1 DEF FoundOnce
  <2>8. FoundBehind'
    <3>1. ASSUME NEW i \in 1..(n + 1)
          PROVE  \E m \in DOMAIN reader.roots :
                   reader'.found[i][1] = reader.roots[m] /\ (m < reader.base \/ m = reader.base)
      <4>1. CASE i \in 1..n
        BY <1>1, <2>1, <2>3, <4>1 DEF FoundBehind
      <4>2. CASE i = n + 1
        <5>1. reader.base \in DOMAIN reader.roots
          BY <1>2, <1>3, <2>1
        <5>2. reader'.found[i][1] = reader.roots[reader.base]
          BY <2>2, <2>3, <4>2 DEF Base
        <5>3. QED
          BY <5>1, <5>2
      <4>3. QED
        BY <2>3, <4>1, <4>2
    <3>2. QED
      BY <2>1, <2>3, <3>1 DEF FoundBehind
  <2>9. FoundAside'
    <3>1. ASSUME NEW i \in 1..(n + 1), reader'.found[i][1] = Base
          PROVE  /\ reader'.found[i][2][1] \notin ToSet(reader.directories)
                 /\ \A e \in ToSet(reader.names) \ {Ahead} : reader'.found[i][2] # Place(e)
      <4>1. CASE i \in 1..n
        BY <1>1, <2>1, <2>3, <3>1, <4>1 DEF FoundAside
      <4>2. CASE i = n + 1
        <5>1. reader'.found[i][2] = Place(Ahead) /\ Place(Ahead)[1] = Ahead.directory
          BY <2>2, <2>3, <4>2 DEF Place
        <5>2. Ahead.directory \notin ToSet(reader.directories)
          BY <1>1, <2>1, <2>5 DEF NamesAside
        <5>3. \A e \in ToSet(reader.names) \ {Ahead} : Place(Ahead) # Place(e)
          BY <2>5, ListedEntries
        <5>4. QED
          BY <5>1, <5>2, <5>3
      <4>3. QED
        BY <2>3, <4>1, <4>2
    <3>2. QED
      BY <2>1, <2>3, <2>4, <2>5, <3>1 DEF FoundAside
  <2>10. NamesAside'
    BY <1>1, <2>1, <2>5 DEF NamesAside
  <2>11. QED
    BY <2>7, <2>8, <2>9, <2>10, OnceOnlyIs
<1>13. CASE WalkGoesOn
  <2>1. /\ UNCHANGED <<reader.error, reader.roots, reader.found>> /\ reader.error = "none"
        /\ reader.pc = "entries" /\ reader'.pc = "base" /\ reader'.base = reader.base + 1 /\ reader.base \in Nat
    BY <1>2, <1>13 DEF WalkGoesOn
  <2>2. FoundOnce'
    BY <1>1, <2>1 DEF FoundOnce
  <2>3. FoundBehind'
    <3>1. Roots \in Seq(Nat) /\ reader.roots = Roots
      BY <1>2, <1>3, <2>1
    <3>2. \A m \in DOMAIN reader.roots : m \in Nat
      BY <3>1
    <3>3. QED
      BY <1>1, <2>1, <3>2 DEF FoundBehind
  <2>4. QED
    BY <2>1, <2>2, <2>3, OnceOnlyIs
<1>14. QED
  BY <1>4, <1>5, <1>6, <1>7, <1>8, <1>9, <1>11, <1>12, <1>13 DEF WalkMove

(***************************************************************************)
(* Nothing missed.                                                         *)
(***************************************************************************)

\* The parts of NoneMissed: what was left alone is there; what was there of the
\* bases behind the walk is found; of the base it is in, it is found or ahead.
Stands == \A b \in DOMAIN store.bases : \A e \in EverListed : Standing(b, e) => e \in store.bases[b]
BehindFound ==
  \A k \in DOMAIN reader.roots : k < reader.base =>
    \A e \in EverListed : e.kind = "transcript" /\ Standing(reader.roots[k], e) =>
      <<reader.roots[k], Place(e)>> \in ToSet(reader.found)
AheadOrFound ==
  \A e \in EverListed : e.kind = "transcript" /\ Standing(Base, e) =>
    \/ <<Base, Place(e)>> \in ToSet(reader.found)
    \/ e \in ToSet(reader.names)
    \/ e.directory \in ToSet(reader.directories)
ListsHold == ToSet(reader.names) \subseteq Entries /\ ToSet(reader.directories) \subseteq Directories

LEMMA NoneMissedIs ==
  /\ NoneMissed <=> /\ Stands
                    /\ Counts /\ reader.pc # "detect" /\ reader.error = "none" => BehindFound
                    /\ Counts /\ reader.pc = "entries" =>
                         AheadOrFound /\ (store.style = "claude" => ListsHold)
  /\ NoneMissed' <=> /\ Stands'
                     /\ Counts' /\ reader'.pc # "detect" /\ reader'.error = "none" => BehindFound'
                     /\ Counts' /\ reader'.pc = "entries" =>
                          AheadOrFound' /\ (store'.style = "claude" => ListsHold')
BY DEF NoneMissed, Stands, BehindFound, AheadOrFound, ListsHold

LEMMA NoneMissedStep ==
  ASSUME WalkType, WalkType', NoneMissed, WalkMove
  PROVE  NoneMissed'
<1>1. /\ Stands
      /\ Counts /\ reader.pc # "detect" /\ reader.error = "none" => BehindFound
      /\ Counts /\ reader.pc = "entries" => AheadOrFound /\ (store.style = "claude" => ListsHold)
  BY NoneMissedIs
<1>2. /\ reader.pc # "done" => reader.error = "none"
      /\ reader.pc # "detect" /\ reader.error = "none" =>
           /\ reader.roots = Roots /\ reader.base \in Nat \ {0}
           /\ Listing(reader.names, EverListed) /\ Listing(reader.directories, Nat)
           /\ reader.found \in Seq(Nat \X (Nat \X Nat))
           /\ store.style = "legacy" => reader.directories = <<>>
      /\ reader.pc = "detect" => reader.base = 1
      /\ reader.pc = "entries" => reader.base <= Len(reader.roots)
      /\ reader.pc \in {"detect", "base"} => reader.directories = <<>> /\ reader.names = <<>>
  BY DEF WalkType
<1>3. Roots \in Seq(Nat) /\ ToSet(Roots) \subseteq DOMAIN store.bases
  BY RootsLead DEF WalkType, WalkStore
<1>4. ASSUME WalkRests
      PROVE  /\ Stands' /\ store' = store /\ seen' = seen /\ (Counts' <=> Counts)
             /\ \A b, e : Standing(b, e)' <=> Standing(b, e)
  BY <1>1, <1>4 DEF WalkRests, Stands, Standing, Counts
<1>5. CASE UNCHANGED <<reader, emitted, seen, store>>
  BY <1>5 DEF NoneMissed, Standing, Counts, Base, Entries, Directories
<1>6. CASE WalkWrites
  <2>1. /\ store'.style = store.style /\ DOMAIN store'.bases = DOMAIN store.bases
        /\ seen.touched \subseteq seen'.touched /\ seen'.before = seen.before /\ UNCHANGED reader
        /\ \A b \in DOMAIN store.bases : \A e \in store.bases[b] :
             <<b, Place(e)>> \notin seen'.touched => e \in store'.bases[b]
    BY <1>6, WalkWritten DEF WalkWrites
  <2>2. \A b, e : Standing(b, e)' => Standing(b, e) /\ <<b, Place(e)>> \notin seen'.touched
    BY <2>1 DEF Standing
  <2>3. Stands'
    BY <1>1, <2>1, <2>2 DEF Stands
  <2>4. Counts' => Counts
    BY <2>1 DEF Counts
  <2>5. Counts' /\ reader'.pc # "detect" /\ reader'.error = "none" => BehindFound'
    BY <1>1, <2>1, <2>2, <2>4 DEF BehindFound
  <2>6. Base' = Base
    BY <2>1 DEF Base
  <2>7. Counts' /\ reader'.pc = "entries" => AheadOrFound'
    BY <1>1, <2>1, <2>2, <2>4, <2>6 DEF AheadOrFound
  <2>8. ASSUME Counts', reader'.pc = "entries", store'.style = "claude" PROVE ListsHold'
    <3>1. ListsHold
      BY <1>1, <2>1, <2>4, <2>8
    <3>2. seen'.touched = {}
      BY <2>8 DEF Counts
    <3>3. Base \in DOMAIN store.bases
      <4>1. reader.pc = "entries" /\ ~(reader.base > Len(reader.roots))
        BY <1>2, <1>3, <2>1, <2>8
      <4>2. QED
        BY <4>1, WalkBase
    <3>4. Entries \subseteq Entries'
      BY <2>1, <2>6, <3>2, <3>3 DEF Entries
    <3>5. Directories \subseteq Directories'
      BY <3>4 DEF Directories
    <3>6. QED
      BY <2>1, <3>1, <3>4, <3>5 DEF ListsHold
  <2>9. QED
    BY <2>3, <2>5, <2>7, <2>8, NoneMissedIs
<1>7. CASE WalkQuits
  <2>1. WalkRests /\ reader'.error # "none" /\ reader'.pc = "done"
    BY <1>7 DEF WalkQuits
  <2>2. Stands'
    BY <1>4, <2>1
  <2>3. QED
    BY <2>1, <2>2, NoneMissedIs
<1>8. CASE WalkLeads
  <2>1. WalkRests /\ reader'.base = 1 /\ reader'.pc = "base" /\ reader'.roots = Roots
    BY <1>2, <1>8 DEF WalkLeads
  <2>2. Stands'
    BY <1>4, <2>1
  <2>3. \A n \in DOMAIN Roots : ~(n < 1)
    BY <1>3
  <2>4. BehindFound'
    BY <2>1, <2>3 DEF BehindFound
  <2>5. QED
    BY <2>1, <2>2, <2>4, NoneMissedIs
<1>9. CASE WalkStops
  <2>1. /\ WalkRests /\ reader.pc = "base" /\ reader'.pc = "done" /\ reader.error = "none"
        /\ UNCHANGED <<reader.roots, reader.base, reader.found>>
    BY <1>2, <1>9 DEF WalkStops
  <2>2. Stands' /\ (Counts' <=> Counts) /\ \A b, e : Standing(b, e)' <=> Standing(b, e)
    BY <1>4, <2>1
  <2>3. Counts' => BehindFound'
    BY <1>1, <2>1, <2>2 DEF BehindFound
  <2>4. QED
    BY <2>1, <2>2, <2>3, NoneMissedIs
<1>10. CASE WalkLists
  <2>1. /\ WalkRests /\ reader.pc = "base" /\ reader'.pc = "entries" /\ ~(reader.base > Len(reader.roots))
        /\ UNCHANGED <<reader.error, reader.roots, reader.base, reader.found>> /\ reader.error = "none"
        /\ reader.directories = <<>> /\ reader.names = <<>>
    BY <1>2, <1>10 DEF WalkLists
  <2>2. Stands' /\ (Counts' <=> Counts) /\ \A b, e : Standing(b, e)' <=> Standing(b, e)
    BY <1>4, <2>1
  <2>3. Counts' => BehindFound'
    BY <1>1, <2>1, <2>2 DEF BehindFound
  <2>4. /\ Base \in DOMAIN store.bases
        /\ Entries \in SUBSET EverListed /\ IsFiniteSet(Entries)
        /\ Directories \in SUBSET Nat /\ IsFiniteSet(Directories)
    BY <2>1, WalkBase
  <2>5. Base' = Base /\ Entries' = Entries /\ Directories' = Directories
    <3>1. Base' = Base
      BY <2>1 DEF Base
    <3>2. Entries' = Entries
      BY <1>4, <2>1, <3>1 DEF Entries
    <3>3. QED
      BY <3>1, <3>2 DEF Directories
  <2>6. \A e \in EverListed : Standing(Base, e) => e \in Entries
    BY <1>1, <2>4 DEF Stands, Entries
  <2>7. ToSet(<<>>) = {}
    BY ListingNone
  <2>8. CASE store.style = "legacy"
    <3> DEFINE X == {e \in Entries : e.kind # "other"}
    <3>1. X \in SUBSET EverListed /\ IsFiniteSet(X) /\ X \subseteq Entries
      BY <2>4, FS_Subset
    <3>2. \A e \in Entries : e.kind = "transcript" => e \in X
      OBVIOUS
    <3>3. reader'.names = Sorted(X)
      BY <1>10, <2>8 DEF WalkLists
    <3> HIDE DEF X
    <3>4. ToSet(reader'.names) = X
      BY <3>1, <3>3, SortedLists
    <3>5. AheadOrFound'
      BY <2>2, <2>5, <2>6, <3>2, <3>4 DEF AheadOrFound
    <3>6. store'.style # "claude"
      BY <1>4, <2>1, <2>8
    <3>7. QED
      BY <2>1, <2>2, <2>3, <3>5, <3>6, NoneMissedIs
  <2>9. CASE store.style # "legacy"
    <3>1. reader'.directories = Ascending(Directories) /\ reader'.names = <<>>
      BY <1>10, <2>1, <2>9 DEF WalkLists
    <3>2. ToSet(reader'.directories) = Directories /\ ToSet(reader'.names) = {}
      BY <2>4, <2>7, <3>1, AscendingLists
    <3>3. \A e \in Entries : e.directory \in Directories
      BY DEF Directories
    <3>4. AheadOrFound'
      BY <2>2, <2>5, <2>6, <3>2, <3>3 DEF AheadOrFound
    <3>5. ListsHold'
      BY <2>5, <3>2 DEF ListsHold
    <3>6. QED
      BY <2>1, <2>2, <2>3, <3>4, <3>5, NoneMissedIs
  <2>10. QED
    BY <2>8, <2>9
<1>11. ASSUME WalkRests, reader.pc = "entries", UNCHANGED <<reader.roots, reader.base>>
       PROVE  /\ Base' = Base /\ Entries' = Entries /\ Directories' = Directories
              /\ Entries \in SUBSET EverListed /\ IsFiniteSet(Entries)
              /\ \A e \in EverListed : Standing(Base, e) => e \in Entries
  <2>1. Base' = Base
    BY <1>11 DEF Base
  <2>2. Entries' = Entries
    BY <1>4, <1>11, <2>1 DEF Entries
  <2>3. Directories' = Directories
    BY <2>2 DEF Directories
  <2>4. ~(reader.base > Len(reader.roots))
    BY <1>2, <1>3, <1>11
  <2>5. Base \in DOMAIN store.bases /\ Entries \in SUBSET EverListed /\ IsFiniteSet(Entries)
    BY <1>11, <2>4, WalkBase
  <2>6. QED
    BY <1>1, <2>1, <2>2, <2>3, <2>5 DEF Stands, Entries
<1>12. CASE WalkEnters
  <2> DEFINE d == Head(reader.directories)
             rest == Tail(reader.directories)
             X == {e \in Entries : e.directory = d}
  <2>1. /\ WalkRests /\ UNCHANGED <<reader.error, reader.roots, reader.base, reader.found, reader.pc>>
        /\ reader.pc = "entries" /\ reader.directories # <<>> /\ reader.names = <<>>
        /\ reader'.directories = rest /\ reader'.names = Sorted(X) /\ reader.error = "none"
    BY <1>2, <1>12 DEF WalkEnters, ListedIn
  <2>2. Stands' /\ (Counts' <=> Counts) /\ \A b, e : Standing(b, e)' <=> Standing(b, e)
    BY <1>4, <2>1
  <2>3. Counts' => BehindFound'
    BY <1>1, <2>1, <2>2 DEF BehindFound
  <2>4. /\ Base' = Base /\ Entries' = Entries /\ Directories' = Directories
        /\ Entries \in SUBSET EverListed /\ IsFiniteSet(Entries)
        /\ \A e \in EverListed : Standing(Base, e) => e \in Entries
    BY <1>11, <2>1
  <2>5. d \in ToSet(reader.directories) /\ ToSet(rest) = ToSet(reader.directories) \ {d}
    BY <1>2, <2>1, ListingTail
  <2>6. X \in SUBSET EverListed /\ IsFiniteSet(X) /\ X \subseteq Entries
    BY <2>4, FS_Subset
  <2>7. \A e \in Entries : e.directory = d => e \in X
    OBVIOUS
  <2> HIDE DEF d, rest, X
  <2>8. ToSet(reader'.names) = X
    BY <2>1, <2>6, SortedLists
  <2>9. ToSet(reader.names) = {}
    BY <2>1, ListingNone
  <2>10. Counts' => AheadOrFound'
    BY <1>1, <2>1, <2>2, <2>4, <2>5, <2>7, <2>8, <2>9 DEF AheadOrFound
  <2>11. Counts' /\ store'.style = "claude" => ListsHold'
    BY <1>1, <1>4, <2>1, <2>2, <2>4, <2>5, <2>6, <2>8 DEF ListsHold
  <2>12. QED
    BY <2>2, <2>3, <2>10, <2>11, NoneMissedIs
<1>13. ASSUME reader.pc = "entries", reader.names # <<>>
       PROVE  /\ Ahead \in ToSet(reader.names) /\ Ahead \in EverListed
              /\ ToSet(Tail(reader.names)) = ToSet(reader.names) \ {Ahead}
  <2>1. Listing(reader.names, EverListed)
    BY <1>2, <1>13
  <2>2. QED
    BY <1>13, <2>1, ListingTail DEF Ahead
<1>14. CASE WalkPasses
  <2>1. /\ WalkRests
        /\ UNCHANGED <<reader.error, reader.roots, reader.base, reader.found, reader.pc, reader.directories>>
        /\ reader.pc = "entries" /\ reader.names # <<>> /\ reader'.names = Tail(reader.names)
        /\ ~Looks(Ahead) \/ (store.style = "legacy" /\ ~There(Ahead))
    BY <1>14 DEF WalkPasses
  <2>2. Stands' /\ (Counts' <=> Counts) /\ \A b, e : Standing(b, e)' <=> Standing(b, e)
    BY <1>4, <2>1
  <2>3. Counts' /\ reader'.error = "none" => BehindFound'
    BY <1>1, <2>1, <2>2 DEF BehindFound
  <2>4. /\ Base' = Base /\ Entries' = Entries /\ Directories' = Directories
        /\ \A e \in EverListed : Standing(Base, e) => e \in Entries
    BY <1>11, <2>1
  <2>5. ToSet(reader'.names) = ToSet(reader.names) \ {Ahead}
    BY <1>13, <2>1
  <2>6. ~(Ahead.kind = "transcript" /\ Ahead \in Entries)
    BY <2>1 DEF Looks, There
  <2>7. Counts' => AheadOrFound'
    <3>1. ASSUME Counts, NEW e \in EverListed, e.kind = "transcript", Standing(Base, e) PROVE e # Ahead
      BY <2>4, <2>6, <3>1
    <3>2. QED
      BY <1>1, <2>1, <2>2, <2>4, <2>5, <3>1 DEF AheadOrFound
  <2>8. Counts' /\ store'.style = "claude" => ListsHold'
    BY <1>1, <1>4, <2>1, <2>2, <2>4, <2>5 DEF ListsHold
  <2>9. QED
    BY <2>2, <2>3, <2>7, <2>8, NoneMissedIs
<1>15. CASE WalkFinds
  <2> DEFINE one == <<Base, Place(Ahead)>>
  <2>1. /\ WalkRests /\ UNCHANGED <<reader.error, reader.roots, reader.base, reader.pc, reader.directories>>
        /\ reader.pc = "entries" /\ reader.names # <<>> /\ reader'.names = Tail(reader.names)
        /\ reader'.found = Append(reader.found, one) /\ reader.error = "none"
    BY <1>2, <1>15 DEF WalkFinds
  <2>2. Stands' /\ (Counts' <=> Counts) /\ \A b, e : Standing(b, e)' <=> Standing(b, e)
    BY <1>4, <2>1
  <2>3. /\ Base' = Base /\ Entries' = Entries /\ Directories' = Directories
        /\ \A e \in EverListed : Standing(Base, e) => e \in Entries
    BY <1>11, <2>1
  <2>4. ToSet(reader'.found) = ToSet(reader.found) \cup {one}
    <3> HIDE DEF one
    <3> DEFINE n == Len(reader.found)
    <3>1. /\ n \in Nat /\ DOMAIN reader.found = 1..n /\ DOMAIN reader'.found = 1..(n + 1)
          /\ reader'.found[n + 1] = one /\ \A i \in 1..n : reader'.found[i] = reader.found[i]
      BY <1>2, <2>1
    <3> HIDE DEF n
    <3>2. 1..(n + 1) = 1..n \cup {n + 1}
      BY <3>1
    <3>3. QED
      BY <3>1, <3>2 DEF ToSet
  <2>5. ToSet(reader'.names) = ToSet(reader.names) \ {Ahead}
    BY <1>13, <2>1
  <2>6. Counts' => BehindFound'
    BY <1>1, <2>1, <2>2, <2>4 DEF BehindFound
  <2>7. Counts' => AheadOrFound'
    BY <1>1, <2>1, <2>2, <2>3, <2>4, <2>5 DEF AheadOrFound
  <2>8. Counts' /\ store'.style = "claude" => ListsHold'
    BY <1>1, <1>4, <2>1, <2>2, <2>3, <2>5 DEF ListsHold
  <2>9. QED
    BY <2>2, <2>6, <2>7, <2>8, NoneMissedIs
<1>16. CASE WalkGoesOn
  <2>1. /\ WalkRests /\ UNCHANGED <<reader.error, reader.roots, reader.found>> /\ reader.error = "none"
        /\ reader.pc = "entries" /\ reader'.pc = "base" /\ reader'.base = reader.base + 1 /\ reader.base \in Nat
    BY <1>2, <1>16 DEF WalkGoesOn
  <2>2. Stands' /\ (Counts' <=> Counts) /\ \A b, e : Standing(b, e)' <=> Standing(b, e)
    BY <1>4, <2>1
  <2>3. ASSUME Counts PROVE reader.names = <<>> /\ reader.directories = <<>>
    <3>1. CASE store.style # "claude"
      BY <1>16, <3>1 DEF WalkGoesOn
    <3>2. CASE store.style = "claude"
      <4>1. ListsHold
        BY <1>1, <2>1, <2>3, <3>2
      <4>2. ASSUME reader.names # <<>> PROVE There(Ahead)
        BY <1>13, <2>1, <4>1, <4>2 DEF ListsHold, There
      <4>3. ASSUME reader.directories # <<>> PROVE Head(reader.directories) \in Directories
        <5>1. Head(reader.directories) \in ToSet(reader.directories)
          BY <1>2, <2>1, <4>3, ListingTail
        <5>2. QED
          BY <4>1, <5>1 DEF ListsHold
      <4>4. QED
        BY <1>16, <4>2, <4>3 DEF WalkGoesOn
    <3>3. QED
      BY <3>1, <3>2
  <2>4. Counts' => BehindFound'
    <3>1. ASSUME Counts, NEW n \in DOMAIN reader.roots, n < reader.base + 1, NEW e \in EverListed,
                 e.kind = "transcript", Standing(reader.roots[n], e)
          PROVE  <<reader.roots[n], Place(e)>> \in ToSet(reader.found)
      <4>1. n \in Nat
        BY <1>2, <1>3, <2>1
      <4>2. CASE n < reader.base
        BY <1>1, <2>1, <3>1, <4>2 DEF BehindFound
      <4>3. CASE n = reader.base
        <5>1. Base = reader.roots[n]
          BY <4>3 DEF Base
        <5>2. ToSet(reader.names) = {} /\ ToSet(reader.directories) = {}
          BY <2>3, <3>1, ListingNone
        <5>3. QED
          BY <1>1, <2>1, <3>1, <5>1, <5>2 DEF AheadOrFound
      <4>4. QED
        BY <2>1, <3>1, <4>1, <4>2, <4>3
    <3>2. QED
      BY <2>1, <2>2, <3>1 DEF BehindFound
  <2>5. QED
    BY <2>1, <2>2, <2>4, NoneMissedIs
<1>17. QED
  BY <1>5, <1>6, <1>7, <1>8, <1>9, <1>10, <1>12, <1>14, <1>15, <1>16 DEF WalkMove

LEMMA WalkAlways == Spec => []WalkInv
<1>1. Init => WalkInv
  BY WalkStarting DEF WalkInv
<1>2. WalkInv /\ [Next]_vars => WalkInv'
  <2> SUFFICES ASSUME WalkInv, [Next]_vars, harness' = "walk"
               PROVE  WalkType' /\ (Single' => OnceOnly') /\ NoneMissed'
    BY DEF WalkInv
  <2>1. harness = "walk"
    BY HarnessStays
  <2>2. WalkType /\ (Single => OnceOnly) /\ NoneMissed
    BY <2>1 DEF WalkInv
  <2>3. WalkMove /\ IsWalkReader(reader)' /\ IsSeen(seen)'
    BY <2>1, <2>2, WalkMoves
  <2>4. WalkType'
    BY <2>2, <2>3, WalkTypeStep
  <2>5. NoneMissed'
    BY <2>2, <2>3, <2>4, NoneMissedStep
  <2>6. Single' => Single
    <3>1. store'.style = store.style /\ store'.candidates = store.candidates
      <4>1. CASE WalkWrites
        BY <2>2, <4>1, WalkWritten
      <4>2. CASE ~WalkWrites
        BY <2>3, <4>2 DEF WalkMove, WalkQuits, WalkLeads, WalkStops, WalkLists, WalkEnters, WalkPasses,
           WalkFinds, WalkGoesOn, WalkRests
      <4>3. QED
        BY <4>1, <4>2
    <3>2. Leading' = Leading
      BY <3>1 DEF Leading
    <3>3. Aliased' = Aliased
      BY <3>2 DEF Aliased
    <3>4. QED
      BY <3>1, <3>3 DEF Single
  <2>7. Single' => OnceOnly'
    BY <2>2, <2>3, <2>4, <2>6, OnceOnlyStep
  <2>8. QED
    BY <2>4, <2>5, <2>7
<1>3. QED
  BY <1>1, <1>2, PTL DEF Spec

\* A Discover that returns no error has found every transcript that was there all
\* along, and none twice, whatever the harness did meanwhile: in Claude Code's
\* histories if nothing was removed, and in its and Codex's unless two paths lead
\* to one root.
THEOREM WalkFindsAll == Spec => []WalkComplete
<1>1. WalkInv => WalkComplete
  <2> SUFFICES ASSUME WalkType, Single => OnceOnly, NoneMissed, harness = "walk", Returned
               PROVE  WalkComplete
    BY DEF WalkInv, WalkComplete
  <2>1. reader.pc = "done" /\ reader.error = "none"
    BY DEF Returned, Done, Running
  <2>2. /\ reader.roots = Roots /\ reader.base \in Nat /\ reader.base > Len(Roots)
        /\ WalkStore
    BY <2>1 DEF WalkType
  <2>3. /\ Roots \in Seq(Nat) /\ \A c \in Leading : ToSet(c.bases) \subseteq ToSet(Roots)
        /\ ToSet(Roots) \subseteq DOMAIN store.bases
    BY <2>2, RootsLead DEF WalkStore
  <2>4. Single => \A i, j \in DOMAIN reader.found : i # j => reader.found[i] # reader.found[j]
    BY DEF OnceOnly
  <2>5. ASSUME Counts, NEW c \in Leading, NEW base \in ToSet(c.bases), NEW e \in store.bases[base],
               e.kind = "transcript", e \in seen.before[base], <<base, Place(e)>> \notin seen.touched
        PROVE  <<base, Place(e)>> \in ToSet(reader.found)
    <3>1. PICK n \in DOMAIN Roots : Roots[n] = base
      BY <2>3 DEF ToSet
    <3>2. n < reader.base
      BY <2>2, <2>3
    <3>3. e \in EverListed
      <4>1. base \in DOMAIN store.bases
        BY <2>3
      <4>2. QED
        BY <2>2, <4>1 DEF WalkStore
    <3>4. Standing(base, e)
      BY <2>5 DEF Standing
    <3>5. BehindFound
      BY <2>1, <2>5, NoneMissedIs
    <3>6. QED
      BY <2>2, <2>5, <3>1, <3>2, <3>3, <3>4, <3>5 DEF BehindFound
  <2>6. QED
    BY <2>4, <2>5 DEF WalkComplete, Single, Aliased, Leading, Counts, Place
<1>2. QED
  BY <1>1, WalkAlways, PTL

===============================================================================
