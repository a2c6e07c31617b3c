------------------------------- MODULE Transcript ------------------------------
(***************************************************************************)
(* What the pipeline promises of one session, whatever it does with files, *)
(* indexes and pending messages: a conversation is recorded as alternating *)
(* turns, is sealed once, and every reading of the sealed transcript       *)
(* delivers the turns chosen at sealing, in order.  It can be discarded at *)
(* any time, and never comes back.                                         *)
(***************************************************************************)
EXTENDS Naturals, Sequences

CONSTANT MaxMessages  \* bound: messages a conversation has

VARIABLES
  turns,      \* the conversation so far: who spoke, and the messages joined
  stage,      \* "recording", "sealed" or "discarded"
  shown,      \* the turns chosen when the transcript was sealed
  cursor,     \* the last turn the current reading has passed
  delivered   \* the turns the current reading has delivered

vars == <<turns, stage, shown, cursor, delivered>>

LastOf(s) == s[Len(s)]

Messages == IF turns = <<>> THEN 0 ELSE LastOf(LastOf(turns).text)

\* A user message opens a turn; an assistant message joins the turn of the
\* assistant that is speaking, or opens one.
Record(speaker) ==
  /\ stage = "recording" /\ Messages < MaxMessages
  /\ turns' =
       IF speaker = "assistant" /\ turns # <<>> /\ LastOf(turns).kind = "assistant"
       THEN [turns EXCEPT ![Len(turns)].text = Append(@, Messages + 1)]
       ELSE Append(turns, [kind |-> speaker, text |-> <<Messages + 1>>])
  /\ UNCHANGED <<stage, shown, cursor, delivered>>

Seal ==
  /\ stage = "recording"
  /\ stage' = "sealed"
  /\ shown' \in SUBSET (1..Len(turns))
  /\ UNCHANGED <<turns, cursor, delivered>>

Deliver ==
  /\ stage = "sealed" /\ cursor < Len(turns)
  /\ cursor' = cursor + 1
  /\ delivered' = IF cursor + 1 \in shown THEN Append(delivered, turns[cursor + 1]) ELSE delivered
  /\ UNCHANGED <<turns, stage, shown>>

Rewind ==
  /\ stage = "sealed"
  /\ cursor' = 0 /\ delivered' = <<>>
  /\ UNCHANGED <<turns, stage, shown>>

Discard ==
  /\ stage # "discarded"
  /\ stage' = "discarded"
  /\ UNCHANGED <<turns, shown, cursor, delivered>>

Init ==
  /\ turns = <<>> /\ stage = "recording" /\ shown = {}
  /\ cursor = 0 /\ delivered = <<>>

Next ==
  \/ \E speaker \in {"user", "assistant"} : Record(speaker)
  \/ Seal \/ Deliver \/ Rewind \/ Discard

Spec == Init /\ [][Next]_vars

=============================================================================
