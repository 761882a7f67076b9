---------------------------- MODULE PlanningProofs ----------------------------
(***************************************************************************)
(* Theorems about three components of MCPlanning: AssistantConversations,  *)
(* for all turns and numbers of faults, Schedules, for all schedules,      *)
(* numbers of ticks, limits and bounds, and AssistantDrafts, for all plans,*)
(* requests and numbers of faults.                                         *)
(***************************************************************************)
EXTENDS Schedules, AssistantDrafts, AssistantConversations, TLAPS

-----------------------------------------------------------------------------
(* The inductive invariant of AssistantConversations *)

\* The labels a request of each kind passes through.
Labels(r) ==
  {"idle", "prompt", "reserve", "end"} \cup
    (CASE r \in Chats -> ChatLabels
       [] r \in Planners -> PlanLabels \cup {"partial"}
       [] OTHER -> ImageLabels)

LabelFits(r) == turns[r].at \in Labels(r)

\* A message of the assistant that answers r is stored.
HasAnswer(r) == \E k \in 1 .. Len(log) : log[k].of = r /\ log[k].role = "assistant"

\* What the deletion leaves is known only when it has deleted the rows.
DeletionFits ==
  /\ deletion.at \in {"idle", "listed"} => missed = {}
  /\ deletion.at = "bytes" => ~ exists

\* Where the bytes of an image may be without its row.
BytesExplained(i) ==
  \/ i \in rows \cup missed
  \/ turns[i].at \in {"row", "unupload"}
  \/ deletion.at = "bytes" /\ i \in deletion.paths

\* The bytes are there before the row, the row before the message; removal takes the
\* bytes first.
ImageFits(i) ==
  /\ ~ lost /\ HasAnswer(i) => TurnAt(i, "end") /\ i \in rows \cap objects
  /\ TurnAt(i, "row") /\ exists => i \in objects
  /\ turns[i].at \in {"usage", "message"} /\ exists => i \in rows \cap objects
  /\ mishaps = 0 /\ TurnAt(i, "metadata") => i \notin objects
  /\ mishaps = 0 /\ i \in objects => BytesExplained(i)

\* The request is through with its answer.
Through(r) == TurnAt(r, "answered") \/ (TurnAt(r, "end") /\ (r \in Chats => turns[r].granted))

AnswerFits(r) ==
  /\ r \in Chats /\ turns[r].at \in {"idle", "prompt", "reserve"} => ~ turns[r].granted
  /\ mishaps = 0 /\ exists /\ Through(r) => HasAnswer(r)

ConversationInv ==
  /\ ConversationTypeOK
  /\ DeletedIsEmpty
  /\ DeletionFits
  /\ \A r \in Turns : LabelFits(r)
  /\ \A i \in Images : ImageFits(i)
  /\ \A r \in Chats \cup Planners : AnswerFits(r)

LEMMA InitConversationInv == ConversationInit => ConversationInv
<1> SUFFICES ASSUME ConversationInit PROVE ConversationInv
  OBVIOUS
<1> USE DEF ConversationInit
<1>1. ConversationTypeOK
  <2>1. turns \in [Turns -> Turn]
    BY DEF Turn
  <2>2. mishaps \in 0 .. MaxMishaps
    BY ConversationBounds
  <2>3. log \in Seq(Message)
    OBVIOUS
  <2>4. deletion \in [at : {"idle", "listed", "bytes", "end"}, paths : SUBSET Images]
    OBVIOUS
  <2> QED
    BY <2>1, <2>2, <2>3, <2>4 DEF ConversationTypeOK
<1>2. DeletedIsEmpty /\ DeletionFits
  BY DEF DeletedIsEmpty, DeletionFits
<1>3. \A r \in Turns : LabelFits(r) /\ ~ HasAnswer(r)
  BY DEF LabelFits, Labels, HasAnswer
<1>4. \A i \in Images : ImageFits(i)
  BY <1>3 DEF ImageFits, TurnAt, Turns
<1>5. \A r \in Chats \cup Planners : AnswerFits(r)
  BY <1>3 DEF AnswerFits, Through, TurnAt, Turns
<1> QED
  BY <1>1, <1>2, <1>3, <1>4, <1>5 DEF ConversationInv

\* The invariant gives what the run checks.
LEMMA ConversationInvSafe == ConversationInv => ConversationSafe
<1> SUFFICES ASSUME ConversationInv PROVE ConversationSafe
  OBVIOUS
<1>1. ConversationTypeOK /\ DeletedIsEmpty
  BY DEF ConversationInv
<1>2. ShownImagesHaveBytes
  <2> SUFFICES ASSUME ~ lost, NEW k \in 1 .. Len(log), log[k].role = "assistant", log[k].of \in Images
               PROVE  log[k].of \in rows \cap objects
    BY DEF ShownImagesHaveBytes
  <2>1. HasAnswer(log[k].of)
    BY DEF HasAnswer
  <2> QED
    BY <2>1 DEF ConversationInv, ImageFits
<1>3. BytesAccounted
  <2> SUFFICES ASSUME mishaps = 0, NEW i \in objects
               PROVE  \/ i \in rows \cup missed
                      \/ i \in {r \in Images : turns[r].at \in {"row", "unupload"}}
                      \/ i \in (IF deletion.at = "bytes" THEN deletion.paths ELSE {})
    BY DEF BytesAccounted
  <2>1. i \in Images
    BY DEF ConversationInv, ConversationTypeOK
  <2>2. BytesExplained(i)
    BY <2>1 DEF ConversationInv, ImageFits
  <2> QED
    BY <2>1, <2>2 DEF BytesExplained
<1>4. EveryTurnAnswered
  <2> SUFFICES ASSUME mishaps = 0, exists, NEW r \in Chats \cup Planners,
                      TurnAt(r, "end"), r \in Chats => turns[r].granted
               PROVE  HasAnswer(r)
    BY DEF EveryTurnAnswered, HasAnswer
  <2> QED
    BY DEF ConversationInv, AnswerFits, Through
<1> QED
  BY <1>1, <1>2, <1>3, <1>4 DEF ConversationSafe

-----------------------------------------------------------------------------
(* What a step of one request may do to the rest *)

Step(r) ==
  /\ turns' \in [Turns -> Turn]
  /\ \A q \in Turns \ {r} : turns'[q] = turns[q]
  /\ exists' = exists /\ deletion' = deletion /\ missed' = missed
  /\ mishaps' \in mishaps .. MaxMishaps
  /\ lost' \in BOOLEAN /\ (lost => lost')
  /\ log' \in Seq(Message) /\ (~ exists => log' = <<>>)
  /\ \A q \in Turns \ {r} : HasAnswer(q)' <=> HasAnswer(q)
  /\ HasAnswer(r) => HasAnswer(r)'
  /\ rows' \subseteq Images /\ (~ exists => rows' = {})
  /\ objects' \subseteq Images
  /\ \A q \in Images \ {r} : (q \in rows' <=> q \in rows) /\ (q \in objects' <=> q \in objects)

LEMMA StepFits ==
  ASSUME ConversationInv, NEW r \in Turns, Step(r), LabelFits(r)',
         r \in Images => ImageFits(r)',
         r \in Chats \cup Planners => AnswerFits(r)'
  PROVE  ConversationInv'
<1>1. ConversationTypeOK'
  BY ConversationBounds DEF ConversationInv, ConversationTypeOK, Step
<1>2. (DeletedIsEmpty /\ DeletionFits)'
  BY DEF ConversationInv, DeletedIsEmpty, DeletionFits, Step
<1>3. ASSUME NEW q \in Turns PROVE LabelFits(q)'
  BY DEF ConversationInv, LabelFits, Labels, Step
<1>4. mishaps \in Nat /\ mishaps' \in Nat /\ (mishaps' = 0 => mishaps = 0)
  BY ConversationBounds DEF ConversationInv, ConversationTypeOK, Step
<1>5. ASSUME NEW i \in Images, i # r PROVE ImageFits(i)'
  <2>1. i \in Turns
    BY DEF Turns
  <2>2. /\ turns'[i] = turns[i] /\ exists' = exists /\ deletion' = deletion /\ missed' = missed
        /\ lost => lost'
        /\ HasAnswer(i)' <=> HasAnswer(i)
        /\ i \in rows' <=> i \in rows
        /\ i \in objects' <=> i \in objects
    BY <1>5, <2>1 DEF Step
  <2>3. ImageFits(i)
    BY DEF ConversationInv
  <2> HIDE DEF HasAnswer
  <2> QED
    BY <1>4, <2>2, <2>3 DEF ImageFits, BytesExplained, TurnAt
<1>6. ASSUME NEW q \in Chats \cup Planners, q # r PROVE AnswerFits(q)'
  <2>1. q \in Turns
    BY DEF Turns
  <2>2. turns'[q] = turns[q] /\ exists' = exists /\ (HasAnswer(q)' <=> HasAnswer(q))
    BY <1>6, <2>1 DEF Step
  <2>3. AnswerFits(q)
    BY DEF ConversationInv
  <2> QED
    BY <1>4, <2>2, <2>3 DEF AnswerFits, Through, TurnAt
<1> QED
  BY <1>1, <1>2, <1>3, <1>5, <1>6 DEF ConversationInv

-----------------------------------------------------------------------------
(* Appending a message *)

LEMMA AppendedMessage ==
  ASSUME ConversationTypeOK, NEW m \in Message, log' = Append(log, m)
  PROVE  /\ log' \in Seq(Message)
         /\ \A q : HasAnswer(q)' <=> (HasAnswer(q) \/ (m.of = q /\ m.role = "assistant"))
<1>1. log \in Seq(Message)
  BY DEF ConversationTypeOK
<1>2. /\ log' \in Seq(Message)
      /\ Len(log') = Len(log) + 1
      /\ \A k \in 1 .. Len(log) : log'[k] = log[k]
      /\ log'[Len(log) + 1] = m
  BY <1>1
<1>3. Len(log) \in Nat
  BY <1>1
<1>4. 1 .. Len(log) + 1 = (1 .. Len(log)) \cup {Len(log) + 1}
  BY <1>3
<1>5. ASSUME NEW q PROVE HasAnswer(q)' <=> (HasAnswer(q) \/ (m.of = q /\ m.role = "assistant"))
  BY <1>2, <1>4 DEF HasAnswer
<1> QED
  BY <1>2, <1>5

AppendCall(r, role, status, ok, bad) ==
  /\ Calls(r, Appendable, Appends(r, role, status), ok, bad)
  /\ UNCHANGED <<deletion, missed>>

\* How such a call may end.
Stored(r, role, ok) ==
  /\ exists /\ mishaps' = mishaps /\ lost' = lost
  /\ turns'[r] = [turns[r] EXCEPT !.at = ok]
  /\ HasAnswer(r)' <=> (HasAnswer(r) \/ role = "assistant")

Unheard(r, bad) ==
  /\ exists /\ mishaps' = mishaps + 1 /\ lost'
  /\ turns'[r] = [turns[r] EXCEPT !.at = bad]

Refused(r, bad) ==
  /\ lost' = lost /\ (~ exists \/ mishaps' = mishaps + 1)
  /\ turns'[r] = [turns[r] EXCEPT !.at = bad]
  /\ HasAnswer(r)' <=> HasAnswer(r)

LEMMA Appending ==
  ASSUME ConversationInv, NEW r \in Turns,
         NEW role \in {"user", "assistant"}, NEW status \in {"completed", "failed", "cancelled"},
         NEW ok, NEW bad, [turns[r] EXCEPT !.at = ok] \in Turn, [turns[r] EXCEPT !.at = bad] \in Turn,
         AppendCall(r, role, status, ok, bad)
  PROVE  /\ Step(r)
         /\ rows' = rows /\ objects' = objects
         /\ Stored(r, role, ok) \/ Unheard(r, bad) \/ Refused(r, bad)
<1> DEFINE m == [of |-> r, role |-> role, status |-> status]
<1>1. ConversationTypeOK /\ DeletedIsEmpty
  BY DEF ConversationInv
<1>2. m \in Message /\ m.of = r /\ m.role = role
  BY DEF Message
<1> HIDE DEF m
<1>3. exists' = exists /\ deletion' = deletion /\ missed' = missed /\ rows' = rows /\ objects' = objects
  BY DEF AppendCall, Calls, Appends, tables
<1>4. \/ exists /\ log' = Append(log, m) /\ Goto(r, ok) /\ mishaps' = mishaps /\ lost' = lost
      \/ exists /\ log' = Append(log, m) /\ Goto(r, bad) /\ Fault /\ lost' = TRUE
      \/ log' = log /\ Goto(r, bad) /\ lost' = lost /\ ((~ exists /\ mishaps' = mishaps) \/ Fault)
  BY DEF AppendCall, Calls, Appends, tables, NoFault, Appendable, m
<1>5. mishaps' \in mishaps .. MaxMishaps /\ lost' \in BOOLEAN /\ (lost => lost')
  <2>1. lost' = lost \/ lost' = TRUE
    BY <1>4
  <2>2. mishaps' = mishaps \/ (mishaps < MaxMishaps /\ mishaps' = mishaps + 1)
    BY <1>4 DEF Fault
  <2>3. mishaps' \in mishaps .. MaxMishaps
    BY <1>1, <2>2, ConversationBounds DEF ConversationTypeOK
  <2> QED
    BY <1>1, <2>1, <2>3 DEF ConversationTypeOK
<1>6. /\ turns' \in [Turns -> Turn]
      /\ \A q \in Turns \ {r} : turns'[q] = turns[q]
      /\ Goto(r, ok) => turns'[r] = [turns[r] EXCEPT !.at = ok]
      /\ Goto(r, bad) => turns'[r] = [turns[r] EXCEPT !.at = bad]
  BY <1>1, <1>4 DEF ConversationTypeOK, Goto
<1>7. CASE exists /\ log' = Append(log, m)
  <2>1. log' \in Seq(Message) /\ \A q : HasAnswer(q)' <=> (HasAnswer(q) \/ (r = q /\ role = "assistant"))
    BY <1>1, <1>2, <1>7, AppendedMessage
  <2>2. Step(r)
    BY <1>1, <1>3, <1>5, <1>6, <1>7, <2>1 DEF Step, ConversationTypeOK
  <2>3. log' # log
    BY <1>1, <1>7 DEF ConversationTypeOK
  <2> QED
    BY <1>3, <1>4, <1>6, <1>7, <2>1, <2>2, <2>3 DEF Stored, Unheard, Fault
<1>8. CASE log' = log
  <2>1. \A q : HasAnswer(q)' <=> HasAnswer(q)
    BY <1>8 DEF HasAnswer
  <2>2. Step(r)
    BY <1>1, <1>3, <1>5, <1>6, <1>8, <2>1 DEF Step, ConversationTypeOK, DeletedIsEmpty
  <2>3. log # Append(log, m)
    BY <1>1 DEF ConversationTypeOK
  <2> QED
    BY <1>3, <1>4, <1>6, <1>8, <2>1, <2>2, <2>3 DEF Refused, Fault
<1> QED
  BY <1>4, <1>7, <1>8

-----------------------------------------------------------------------------
(* A step that only moves the request *)

\* The tables stay, the request becomes x.
Still(r, x) ==
  /\ UNCHANGED tables /\ UNCHANGED <<deletion, missed>> /\ lost' = lost
  /\ mishaps' = mishaps \/ Fault
  /\ turns' = [turns EXCEPT ![r] = x]

LEMMA Quietly ==
  ASSUME ConversationInv, NEW r \in Turns, NEW x \in Turn, Still(r, x)
  PROVE  /\ Step(r)
         /\ rows' = rows /\ objects' = objects
         /\ turns'[r] = x
         /\ mishaps' \in Nat /\ (mishaps' = 0 => mishaps = 0)
         /\ HasAnswer(r)' <=> HasAnswer(r)
<1>1. ConversationTypeOK /\ DeletedIsEmpty
  BY DEF ConversationInv
<1>2. \A q : HasAnswer(q)' <=> HasAnswer(q)
  BY DEF Still, tables, HasAnswer
<1>3. mishaps' \in mishaps .. MaxMishaps /\ mishaps' \in Nat /\ mishaps \in Nat
  BY <1>1, ConversationBounds DEF ConversationTypeOK, Still, Fault
<1>4. /\ turns' \in [Turns -> Turn]
      /\ turns'[r] = x
      /\ \A q \in Turns \ {r} : turns'[q] = turns[q]
  BY <1>1 DEF ConversationTypeOK, Still
<1>5. Step(r)
  BY <1>1, <1>2, <1>3, <1>4 DEF Step, Still, tables, ConversationTypeOK, DeletedIsEmpty
<1> QED
  BY <1>2, <1>3, <1>4, <1>5 DEF Still, tables

-----------------------------------------------------------------------------
(* Labels tell what kind of request it is *)

LEMMA KindOf ==
  ASSUME ConversationInv, NEW r \in Turns
  PROVE  /\ turns[r] \in Turn
         /\ turns[r].at \in ChatLabels \ {"partial"} => r \in Chats
         /\ TurnAt(r, "partial") => r \in Chats \cup Planners
         /\ turns[r].at \in PlanLabels => r \in Planners
         /\ turns[r].at \in ImageLabels => r \in Images
<1>1. turns[r] \in Turn /\ turns[r].at \in Labels(r)
  BY DEF ConversationInv, ConversationTypeOK, LabelFits
<1>2. r \in Chats \/ r \in Planners \/ r \in Images
  BY DEF Turns
<1> QED
  BY <1>1, <1>2, ConversationBounds DEF Labels, TurnAt, ChatLabels, PlanLabels, ImageLabels

LEMMA LabelsOf ==
  ASSUME NEW r \in Turns
  PROVE  /\ {"idle", "prompt", "reserve", "end"} \subseteq Labels(r)
         /\ r \in Chats => ChatLabels \subseteq Labels(r)
         /\ r \in Planners => PlanLabels \cup {"partial"} \subseteq Labels(r)
         /\ r \in Images => ImageLabels \subseteq Labels(r)
  BY ConversationBounds DEF Labels, Turns

LEMMA LabelsAreLabels ==
  ASSUME NEW r \in Turns, NEW at \in Labels(r), NEW x \in Turn
  PROVE  [x EXCEPT !.at = at] \in Turn /\ [x EXCEPT !.at = at].at = at
<1>1. at \in {"idle", "prompt", "reserve", "end"} \cup ChatLabels \cup PlanLabels \cup ImageLabels
  BY DEF Labels, Turns, ChatLabels
<1> QED
  BY <1>1 DEF Turn

-----------------------------------------------------------------------------
(* Still steps keep the invariant *)

\* No label that says something of the tables is entered, except as its action does.
ImageMoves(r, x) ==
  /\ turns[r].at # "end"
  /\ x.at \notin {"row", "unupload", "metadata", "usage"}
  /\ x.at = "message" => TurnAt(r, "usage")
  /\ turns[r].at \in {"row", "unupload"} => Fault

\* A request is through only with an answer, after a fault or without its conversation.
AnswerMoves(r, x) ==
  /\ r \in Chats /\ x.at \in {"idle", "prompt", "reserve"} => ~ x.granted
  /\ x.at = "answered" \/ (x.at = "end" /\ (r \in Chats => x.granted)) =>
       Fault \/ ~ exists \/ Through(r)

LEMMA QuietFits ==
  ASSUME ConversationInv, NEW r \in Turns, NEW x \in Turn, x.at \in Labels(r), Still(r, x),
         r \in Images => ImageMoves(r, x),
         r \in Chats \cup Planners => AnswerMoves(r, x)
  PROVE  ConversationInv'
<1>1. /\ Step(r)
      /\ rows' = rows /\ objects' = objects
      /\ turns'[r] = x
      /\ mishaps' \in Nat /\ (mishaps' = 0 => mishaps = 0)
      /\ HasAnswer(r)' <=> HasAnswer(r)
  BY Quietly
<1>2. exists' = exists /\ lost' = lost /\ missed' = missed /\ deletion' = deletion
  BY DEF Still, tables
<1>3. Fault => mishaps' # 0
  BY ConversationBounds DEF Fault, ConversationInv, ConversationTypeOK
<1>4. LabelFits(r)'
  BY <1>1 DEF LabelFits, Labels
<1>5. ASSUME r \in Images PROVE ImageFits(r)'
  <2>1. ImageFits(r) /\ ImageMoves(r, x)
    BY <1>5 DEF ConversationInv
  <2>2. ~ lost => ~ HasAnswer(r)
    BY <2>1 DEF ImageFits, ImageMoves, TurnAt
  <2>3. mishaps' = 0 /\ r \in objects => BytesExplained(r)'
    BY <1>1, <1>2, <1>3, <2>1 DEF ImageFits, ImageMoves, BytesExplained
  <2> QED
    BY <1>1, <1>2, <2>1, <2>2, <2>3 DEF ImageFits, ImageMoves, TurnAt
<1>6. ASSUME r \in Chats \cup Planners PROVE AnswerFits(r)'
  <2>1. AnswerFits(r) /\ AnswerMoves(r, x)
    BY <1>6 DEF ConversationInv
  <2> QED
    BY <1>1, <1>2, <1>3, <2>1 DEF AnswerFits, AnswerMoves, Through, TurnAt
<1> QED
  BY <1>1, <1>4, <1>5, <1>6, StepFits

LEMMA BeginTurnFits ==
  ASSUME ConversationInv, NEW r \in Turns, BeginTurn(r)
  PROVE  ConversationInv'
<1>1. PICK a : a = IF exists THEN "prompt" ELSE "end"
  OBVIOUS
<1>2. PICK x : x = [turns[r] EXCEPT !.at = a]
  OBVIOUS
<1>3. turns[r] \in Turn /\ TurnAt(r, "idle")
  BY KindOf DEF BeginTurn
<1>4. a \in Labels(r) /\ x \in Turn /\ x.at = a
  BY <1>1, <1>2, <1>3, LabelsOf, LabelsAreLabels
<1>5. Still(r, x)
  BY <1>1, <1>2 DEF BeginTurn, Goto, Still, tables
<1>6. r \in Images => ImageMoves(r, x)
  BY <1>1, <1>3, <1>4 DEF ImageMoves, TurnAt
<1>7. r \in Chats \cup Planners => AnswerMoves(r, x)
  <2>1. r \in Chats => ~ turns[r].granted
    BY <1>3 DEF ConversationInv, AnswerFits, TurnAt
  <2>2. x.granted = turns[r].granted
    BY <1>2, <1>3 DEF Turn
  <2> QED
    BY <1>1, <1>4, <2>1, <2>2 DEF AnswerMoves
<1> QED
  BY <1>4, <1>5, <1>6, <1>7, QuietFits

LEMMA ReserveTurnFits ==
  ASSUME ConversationInv, NEW r \in Turns, ReserveTurn(r)
  PROVE  ConversationInv'
<1>1. turns[r] \in Turn /\ TurnAt(r, "reserve")
  BY KindOf DEF ReserveTurn
<1>2. CASE turns' = [turns EXCEPT ![r].at = Granted(r), ![r].granted = TRUE]
  <2>1. PICK x : x = [turns[r] EXCEPT !.at = Granted(r), !.granted = TRUE]
    OBVIOUS
  <2>2. Granted(r) \in {"history", "provider", "generate"} /\ Granted(r) \in Labels(r)
    BY LabelsOf, ConversationBounds DEF Granted, Turns, ChatLabels, PlanLabels, ImageLabels
  <2>3. x \in Turn /\ x.at = Granted(r)
    BY <1>1, <2>1, <2>2 DEF Turn, ChatLabels, PlanLabels, ImageLabels
  <2>4. Still(r, x)
    BY <1>2, <2>1 DEF ReserveTurn, Still
  <2>5. ImageMoves(r, x) /\ AnswerMoves(r, x)
    BY <1>1, <2>2, <2>3 DEF ImageMoves, AnswerMoves, TurnAt
  <2> QED
    BY <2>2, <2>3, <2>4, <2>5, QuietFits
<1>3. CASE Goto(r, IF r \in Planners THEN "partial" ELSE "end")
  <2>1. PICK a : a = IF r \in Planners THEN "partial" ELSE "end"
    OBVIOUS
  <2>2. PICK x : x = [turns[r] EXCEPT !.at = a]
    OBVIOUS
  <2>3. a \in Labels(r) /\ x \in Turn /\ x.at = a
    BY <1>1, <2>1, <2>2, LabelsOf, LabelsAreLabels
  <2>4. Still(r, x)
    BY <1>3, <2>1, <2>2 DEF ReserveTurn, Goto, Still
  <2>5. r \in Images => ImageMoves(r, x)
    BY <1>1, <2>1, <2>3 DEF ImageMoves, TurnAt
  <2>6. r \in Chats \cup Planners => AnswerMoves(r, x)
    <3>1. r \in Chats => ~ turns[r].granted
      BY <1>1 DEF ConversationInv, AnswerFits, TurnAt
    <3>2. x.granted = turns[r].granted
      BY <1>1, <2>2 DEF Turn
    <3> QED
      BY <2>1, <2>3, <3>1, <3>2, ConversationBounds DEF AnswerMoves
  <2> QED
    BY <2>3, <2>4, <2>5, <2>6, QuietFits
<1> QED
  BY <1>2, <1>3 DEF ReserveTurn

LEMMA DieInTurnFits ==
  ASSUME ConversationInv, NEW r \in Turns, DieInTurn(r)
  PROVE  ConversationInv'
<1>1. PICK x : x = [turns[r] EXCEPT !.at = "end"]
  OBVIOUS
<1>2. turns[r] \in Turn /\ turns[r].at \notin {"idle", "end"} /\ Fault
  BY KindOf DEF DieInTurn
<1>3. "end" \in Labels(r) /\ x \in Turn /\ x.at = "end"
  BY <1>1, <1>2, LabelsOf, LabelsAreLabels
<1>4. Still(r, x)
  BY <1>1 DEF DieInTurn, Goto, Still
<1>5. ImageMoves(r, x) /\ AnswerMoves(r, x)
  BY <1>2, <1>3 DEF ImageMoves, AnswerMoves
<1> QED
  BY <1>3, <1>4, <1>5, QuietFits

-----------------------------------------------------------------------------
(* The steps of chats and plans *)

LEMMA GoesQuietly ==
  ASSUME ConversationInv, NEW r \in Turns, NEW a \in Labels(r), Goto(r, a),
         UNCHANGED tables, UNCHANGED <<deletion, missed>>, lost' = lost, mishaps' = mishaps \/ Fault
  PROVE  \E x \in Turn : /\ Still(r, x)
                         /\ x.at = a /\ x.granted = turns[r].granted
<1>1. turns[r] \in Turn
  BY KindOf
<1>2. PICK x : x = [turns[r] EXCEPT !.at = a]
  OBVIOUS
<1>3. x \in Turn /\ x.at = a
  BY <1>1, <1>2, LabelsAreLabels
<1>4. x.granted = turns[r].granted
  BY <1>1, <1>2 DEF Turn
<1>5. Still(r, x)
  BY <1>2 DEF Goto, Still
<1> QED
  BY <1>3, <1>4, <1>5

LEMMA ReadHistoryFits ==
  ASSUME ConversationInv, NEW r \in Turns, ReadHistory(r)
  PROVE  ConversationInv'
<1>1. r \in Chats /\ r \notin Images
  BY KindOf, ConversationBounds DEF ReadHistory, TurnAt, ChatLabels
<1>2. PICK a \in {"stream", "partial"} : Goto(r, a)
  BY DEF ReadHistory
<1>3. a \in Labels(r)
  BY <1>1, LabelsOf DEF ChatLabels
<1>4. PICK x \in Turn : Still(r, x) /\ x.at = a
  BY <1>2, <1>3, GoesQuietly DEF ReadHistory, NoFault
<1>5. AnswerMoves(r, x)
  BY <1>4 DEF AnswerMoves
<1> QED
  BY <1>1, <1>3, <1>4, <1>5, QuietFits

LEMMA StreamFits ==
  ASSUME ConversationInv, NEW r \in Turns, Stream(r)
  PROVE  ConversationInv'
<1>1. r \in Chats /\ r \notin Images /\ turns[r] \in Turn
  BY KindOf, ConversationBounds DEF Stream, TurnAt, ChatLabels
<1>2. {"answer", "partial"} \subseteq Labels(r)
  BY <1>1, LabelsOf DEF ChatLabels
<1>3. \E x \in Turn : Still(r, x) /\ x.at \in {"answer", "partial"}
  <2>1. CASE Goto(r, "answer")
    BY <1>2, <2>1, GoesQuietly DEF Stream
  <2>2. CASE \E verdict \in Interrupted(r) :
               turns' = [turns EXCEPT ![r].at = "partial", ![r].verdict = verdict]
    <3>1. PICK verdict \in Interrupted(r) :
            turns' = [turns EXCEPT ![r].at = "partial", ![r].verdict = verdict]
      BY <2>2
    <3>2. PICK x : x = [turns[r] EXCEPT !.at = "partial", !.verdict = verdict]
      OBVIOUS
    <3>3. x \in Turn /\ x.at = "partial"
      BY <1>1, <3>2 DEF Turn, ChatLabels, Interrupted
    <3> QED
      BY <3>1, <3>2, <3>3 DEF Stream, Still
  <2> QED
    BY <2>1, <2>2 DEF Stream
<1>4. PICK x \in Turn : Still(r, x) /\ x.at \in {"answer", "partial"}
  BY <1>3
<1>5. AnswerMoves(r, x)
  BY <1>4 DEF AnswerMoves
<1> QED
  BY <1>1, <1>2, <1>4, <1>5, QuietFits

LEMMA PassOnFits ==
  ASSUME ConversationInv, NEW r \in Turns, PassOn(r)
  PROVE  ConversationInv'
<1>1. r \in Chats /\ r \notin Images
  BY KindOf, ConversationBounds DEF PassOn, TurnAt, ChatLabels
<1>2. PICK a \in {"partial", "end"} : Goto(r, a)
  BY DEF PassOn
<1>3. a \in Labels(r)
  BY <1>1, LabelsOf DEF ChatLabels
<1>4. PICK x \in Turn : Still(r, x) /\ x.at = a
  BY <1>2, <1>3, GoesQuietly DEF PassOn
<1>5. AnswerMoves(r, x)
  BY <1>4 DEF AnswerMoves, Through, PassOn
<1> QED
  BY <1>1, <1>3, <1>4, <1>5, QuietFits

LEMMA LeaveFits ==
  ASSUME ConversationInv, NEW r \in Chats, Leave(r)
  PROVE  ConversationInv'
<1>1. r \in Turns /\ r \notin Images
  BY ConversationBounds DEF Turns
<1>2. turns[r] \in Turn /\ LabelFits(r)
  BY <1>1, KindOf DEF ConversationInv
<1>3. PICK x : x = [turns[r] EXCEPT !.gone = TRUE]
  OBVIOUS
<1>4. x \in Turn /\ x.at = turns[r].at /\ x.granted = turns[r].granted
  BY <1>2, <1>3 DEF Turn
<1>5. Still(r, x)
  BY <1>3 DEF Leave, Still
<1>6. AnswerMoves(r, x)
  BY <1>4 DEF AnswerMoves, Through, TurnAt, Leave, ChatLabels
<1> QED
  BY <1>1, <1>2, <1>4, <1>5, <1>6, QuietFits DEF LabelFits

LEMMA AskProviderFits ==
  ASSUME ConversationInv, NEW r \in Turns, AskProvider(r)
  PROVE  ConversationInv'
<1>1. r \in Planners /\ r \notin Images /\ r \notin Chats /\ turns[r] \in Turn
  BY KindOf, ConversationBounds DEF AskProvider, TurnAt, PlanLabels
<1>2. {"plan", "partial", "reserve"} \subseteq Labels(r)
  BY <1>1, LabelsOf DEF PlanLabels
<1>3. \E x \in Turn : Still(r, x) /\ x.at \in {"plan", "partial", "reserve"}
  <2>1. CASE Goto(r, "plan")
    BY <1>2, <2>1, GoesQuietly DEF AskProvider
  <2>2. CASE \E verdict \in {"failed", "cancelled"} :
               turns' = [turns EXCEPT ![r].at = "partial", ![r].verdict = verdict]
    <3>1. PICK verdict \in {"failed", "cancelled"} :
            turns' = [turns EXCEPT ![r].at = "partial", ![r].verdict = verdict]
      BY <2>2
    <3>2. PICK x : x = [turns[r] EXCEPT !.at = "partial", !.verdict = verdict]
      OBVIOUS
    <3>3. x \in Turn /\ x.at = "partial"
      BY <1>1, <3>2 DEF Turn, ChatLabels
    <3> QED
      BY <3>1, <3>2, <3>3 DEF AskProvider, Still
  <2>3. CASE \E provider \in Providers \ turns[r].tried :
               turns' = [turns EXCEPT
                 ![r].tried = Excluded(r, provider),
                 ![r].at = IF Excluded(r, provider) = Providers THEN "partial" ELSE "reserve"]
    <3>1. PICK provider \in Providers \ turns[r].tried :
            turns' = [turns EXCEPT
              ![r].tried = Excluded(r, provider),
              ![r].at = IF Excluded(r, provider) = Providers THEN "partial" ELSE "reserve"]
      BY <2>3
    <3>2. PICK tried : tried = Excluded(r, provider)
      OBVIOUS
    <3>3. tried \in SUBSET Providers
      BY <1>1, <3>2 DEF Excluded, Turn
    <3>4. PICK a : a = IF tried = Providers THEN "partial" ELSE "reserve"
      OBVIOUS
    <3>5. PICK x : x = [turns[r] EXCEPT !.tried = tried, !.at = a]
      OBVIOUS
    <3>6. x \in Turn /\ x.at \in {"partial", "reserve"}
      BY <1>1, <3>3, <3>4, <3>5 DEF Turn, ChatLabels
    <3>7. turns' = [turns EXCEPT ![r] = x]
      BY <3>1, <3>2, <3>4, <3>5
    <3> QED
      BY <3>6, <3>7 DEF AskProvider, Still
  <2> QED
    BY <2>1, <2>2, <2>3 DEF AskProvider
<1>4. PICK x \in Turn : Still(r, x) /\ x.at \in {"plan", "partial", "reserve"}
  BY <1>3
<1>5. AnswerMoves(r, x)
  BY <1>1, <1>4 DEF AnswerMoves
<1> QED
  BY <1>1, <1>2, <1>4, <1>5, QuietFits

-----------------------------------------------------------------------------
(* The steps that append a message *)

LEMMA AppendFits ==
  ASSUME ConversationInv, NEW r \in Turns,
         NEW role \in {"user", "assistant"}, NEW status \in {"completed", "failed", "cancelled"},
         NEW ok \in Labels(r), NEW bad \in Labels(r),
         AppendCall(r, role, status, ok, bad),
         role = "assistant" \/ ok \notin {"answered", "end"},
         r \in Chats /\ (ok = "reserve" \/ TurnAt(r, "prompt")) => ~ turns[r].granted,
         {ok, bad} \cap {"idle", "prompt", "row", "usage", "message", "metadata"} = {},
         bad # "reserve",
         r \in Images => turns[r].at \notin {"end", "row", "unupload"},
         r \in Images /\ role = "assistant" => TurnAt(r, "message") /\ ok = "end"
  PROVE  ConversationInv'
<1>1. turns[r] \in Turn
  BY KindOf
<1>2. /\ [turns[r] EXCEPT !.at = ok] \in Turn /\ [turns[r] EXCEPT !.at = ok].at = ok
      /\ [turns[r] EXCEPT !.at = bad] \in Turn /\ [turns[r] EXCEPT !.at = bad].at = bad
  BY <1>1, LabelsAreLabels
<1>3. /\ Step(r)
      /\ rows' = rows /\ objects' = objects
      /\ Stored(r, role, ok) \/ Unheard(r, bad) \/ Refused(r, bad)
  BY <1>2, Appending
<1>4. exists' = exists /\ deletion' = deletion /\ missed' = missed
  BY <1>3 DEF Step
<1>5. mishaps \in Nat /\ mishaps' \in Nat /\ (mishaps' = 0 => mishaps = 0) /\ mishaps + 1 # 0
  BY <1>3, ConversationBounds DEF Step, ConversationInv, ConversationTypeOK
<1>6. turns'[r].granted = turns[r].granted /\ turns'[r].at \in {ok, bad}
  BY <1>1, <1>2, <1>3 DEF Stored, Unheard, Refused, Turn
<1>7. LabelFits(r)'
  BY <1>6 DEF LabelFits, Labels
<1>8. ASSUME r \in Images PROVE ImageFits(r)'
  <2>1. ImageFits(r) /\ turns[r].at \notin {"end", "row", "unupload"}
    BY <1>8 DEF ConversationInv
  <2>2. turns'[r].at \notin {"row", "usage", "message", "metadata"}
    BY <1>6
  <2>3. mishaps' = 0 /\ r \in objects' => BytesExplained(r)'
    BY <1>3, <1>4, <1>5, <2>1 DEF ImageFits, BytesExplained
  <2>4. ~ lost' /\ HasAnswer(r)' => TurnAt(r, "end")' /\ r \in rows' \cap objects'
    <3>1. ~ lost => ~ HasAnswer(r)
      BY <2>1 DEF ImageFits, TurnAt
    <3>2. CASE Stored(r, role, ok)
      <4>1. role = "assistant" => TurnAt(r, "message") /\ ok = "end"
        BY <1>8
      <4>2. role = "assistant" => r \in rows \cap objects
        BY <2>1, <3>2, <4>1 DEF Stored, ImageFits, TurnAt
      <4> QED
        BY <1>2, <1>3, <3>1, <3>2, <4>1, <4>2 DEF Stored, TurnAt
    <3>3. CASE Unheard(r, bad)
      BY <3>3 DEF Unheard
    <3>4. CASE Refused(r, bad)
      BY <3>1, <3>4 DEF Refused
    <3> QED
      BY <1>3, <3>2, <3>3, <3>4
  <2> QED
    BY <2>2, <2>3, <2>4 DEF ImageFits, TurnAt
<1>9. ASSUME r \in Chats \cup Planners PROVE AnswerFits(r)'
  <2>1. AnswerFits(r)
    BY <1>9 DEF ConversationInv
  <2>2. r \in Chats /\ turns'[r].at \in {"idle", "prompt", "reserve"} => ~ turns'[r].granted
    BY <1>6
  <2>3. CASE Stored(r, role, ok)
    BY <1>2, <2>2, <2>3 DEF Stored, AnswerFits, Through, TurnAt
  <2>4. CASE Unheard(r, bad)
    BY <1>5, <2>2, <2>4 DEF Unheard, AnswerFits
  <2>5. CASE Refused(r, bad)
    BY <1>4, <1>5, <2>2, <2>5 DEF Refused, AnswerFits
  <2> QED
    BY <1>3, <2>3, <2>4, <2>5
<1> QED
  BY <1>3, <1>7, <1>8, <1>9, StepFits

LEMMA AppendPromptFits ==
  ASSUME ConversationInv, NEW r \in Turns, AppendPrompt(r)
  PROVE  ConversationInv'
<1>1. PICK bad : bad = IF r \in Planners THEN "partial" ELSE "end"
  OBVIOUS
<1>2. "reserve" \in Labels(r) /\ bad \in Labels(r)
  BY <1>1, LabelsOf
<1>3. AppendCall(r, "user", "completed", "reserve", bad)
  BY <1>1 DEF AppendPrompt, AppendCall
<1>4. r \in Chats => ~ turns[r].granted
  BY DEF AppendPrompt, ConversationInv, AnswerFits, TurnAt
<1>5. turns[r].at \notin {"end", "row", "unupload"} /\ bad \in {"partial", "end"}
  BY <1>1 DEF AppendPrompt, TurnAt
<1> QED
  BY <1>2, <1>3, <1>4, <1>5, AppendFits

LEMMA AppendAnswerFits ==
  ASSUME ConversationInv, NEW r \in Turns, AppendAnswer(r)
  PROVE  ConversationInv'
<1>1. r \in Chats /\ r \notin Images /\ ~ TurnAt(r, "prompt")
  BY KindOf, ConversationBounds DEF AppendAnswer, TurnAt, ChatLabels
<1>2. "answered" \in Labels(r) /\ "partial" \in Labels(r)
  BY <1>1, LabelsOf DEF ChatLabels
<1>3. AppendCall(r, "assistant", "completed", "answered", "partial")
  BY DEF AppendAnswer, AppendCall
<1> QED
  BY <1>1, <1>2, <1>3, AppendFits

LEMMA AppendPlanFits ==
  ASSUME ConversationInv, NEW r \in Turns, AppendPlan(r)
  PROVE  ConversationInv'
<1>1. r \in Planners /\ r \notin Images /\ ~ TurnAt(r, "prompt")
  BY KindOf, ConversationBounds DEF AppendPlan, TurnAt, PlanLabels
<1>2. "end" \in Labels(r) /\ "partial" \in Labels(r)
  BY <1>1, LabelsOf
<1>3. AppendCall(r, "assistant", "completed", "end", "partial")
  BY DEF AppendPlan, AppendCall
<1> QED
  BY <1>1, <1>2, <1>3, AppendFits

LEMMA AppendPartialFits ==
  ASSUME ConversationInv, NEW r \in Turns, AppendPartial(r)
  PROVE  ConversationInv'
<1>1. r \notin Images /\ ~ TurnAt(r, "prompt") /\ turns[r] \in Turn
  BY KindOf, ConversationBounds DEF AppendPartial, TurnAt
<1>2. "end" \in Labels(r)
  BY LabelsOf
<1>3. PICK verdict \in {"failed", "cancelled"} : verdict = turns[r].verdict
  BY <1>1 DEF Turn
<1>4. AppendCall(r, "assistant", verdict, "end", "end")
  BY <1>3 DEF AppendPartial, AppendCall, Calls, Keeps
<1> QED
  BY <1>1, <1>2, <1>4, AppendFits

LEMMA AppendImageFits ==
  ASSUME ConversationInv, NEW r \in Turns, AppendImage(r)
  PROVE  ConversationInv'
<1>1. r \in Images /\ r \notin Chats /\ TurnAt(r, "message")
  BY KindOf, ConversationBounds DEF AppendImage, TurnAt, ImageLabels
<1>2. "end" \in Labels(r) /\ "lookup" \in Labels(r)
  BY <1>1, LabelsOf DEF ImageLabels
<1>3. AppendCall(r, "assistant", "completed", "end", "lookup")
  BY DEF AppendImage, AppendCall
<1> QED
  BY <1>1, <1>2, <1>3, AppendFits DEF TurnAt

-----------------------------------------------------------------------------
(* The steps of images *)

ImageStep(r, a) ==
  /\ Goto(r, a)
  /\ UNCHANGED <<exists, log, deletion, missed>>
  /\ rows' \in {rows, rows \ {r}} \/ (exists /\ rows' = rows \cup {r})
  /\ objects' \in {objects, objects \cup {r}, objects \ {r}}
  /\ \/ mishaps' = mishaps /\ lost' = lost
     \/ Fault /\ lost' \in {lost, TRUE}

LEMMA ImageSteps ==
  ASSUME ConversationInv, NEW r \in Images, NEW a \in ImageLabels \cup {"end"}, ImageStep(r, a)
  PROVE  /\ Step(r) /\ LabelFits(r)'
         /\ turns'[r].at = a
         /\ exists' = exists /\ missed' = missed /\ deletion' = deletion
         /\ lost => lost'
         /\ mishaps' = 0 => mishaps = 0 /\ mishaps' = mishaps /\ lost' = lost
         /\ HasAnswer(r)' <=> HasAnswer(r)
         /\ ImageFits(r)
<1>1. ConversationTypeOK /\ DeletedIsEmpty /\ r \in Turns
  BY DEF ConversationInv, Turns
<1>2. a \in Labels(r)
  BY <1>1, LabelsOf
<1>3. turns[r] \in Turn /\ [turns[r] EXCEPT !.at = a] \in Turn /\ [turns[r] EXCEPT !.at = a].at = a
  BY <1>1, <1>2, KindOf, LabelsAreLabels
<1>4. /\ turns' \in [Turns -> Turn]
      /\ turns'[r].at = a
      /\ \A q \in Turns \ {r} : turns'[q] = turns[q]
  BY <1>1, <1>3 DEF ImageStep, Goto, ConversationTypeOK
<1>5. /\ exists' = exists /\ log' = log /\ missed' = missed /\ deletion' = deletion
      /\ rows' \subseteq Images /\ objects' \subseteq Images
      /\ \A q \in Images \ {r} : (q \in rows' <=> q \in rows) /\ (q \in objects' <=> q \in objects)
  BY <1>1 DEF ImageStep, ConversationTypeOK
<1>6. ~ exists => rows' = {}
  BY <1>1 DEF ImageStep, DeletedIsEmpty
<1>7. lost' \in BOOLEAN /\ (lost => lost')
  BY <1>1 DEF ImageStep, ConversationTypeOK
<1>8. /\ mishaps' \in mishaps .. MaxMishaps
      /\ mishaps' = 0 => mishaps = 0 /\ mishaps' = mishaps
      /\ Fault => mishaps' # 0
  <2>1. mishaps' = mishaps \/ Fault
    BY DEF ImageStep
  <2>2. mishaps \in 0 .. MaxMishaps /\ MaxMishaps \in Nat
    BY <1>1, ConversationBounds DEF ConversationTypeOK
  <2> QED
    BY <2>1, <2>2 DEF Fault
<1>9. \A q : HasAnswer(q)' <=> HasAnswer(q)
  BY <1>5 DEF HasAnswer
<1>10. Step(r)
  BY <1>1, <1>4, <1>5, <1>6, <1>7, <1>8, <1>9 DEF Step, ConversationTypeOK, DeletedIsEmpty
<1>11. mishaps' = 0 => lost' = lost
  BY <1>8 DEF ImageStep
<1>12. LabelFits(r)'
  BY <1>2, <1>4 DEF LabelFits, Labels
<1> QED
  BY <1>4, <1>5, <1>7, <1>8, <1>9, <1>10, <1>11, <1>12 DEF ConversationInv

LEMMA ImageStepFits ==
  ASSUME ConversationInv, NEW r \in Images, NEW a \in ImageLabels \cup {"end"}, ImageStep(r, a),
         ImageFits(r)'
  PROVE  ConversationInv'
  BY ImageSteps, StepFits, ConversationBounds DEF Turns

LEMMA UploadFits ==
  ASSUME ConversationInv, NEW r \in Turns, Upload(r)
  PROVE  ConversationInv'
<1>1. r \in Images /\ TurnAt(r, "upload")
  BY KindOf DEF Upload, TurnAt, ImageLabels
<1>2. PICK a \in {"row", "end"} :
        /\ ImageStep(r, a) /\ rows' = rows
        /\ \/ a = "row" /\ objects' = objects \cup {r}
           \/ a = "end" /\ Fault
  BY DEF Upload, Calls, ImageStep, NoFault, tables
<1>3. a \in ImageLabels \cup {"end"}
  BY DEF ImageLabels
<1>4. Fault => mishaps' # 0
  BY ConversationBounds DEF Fault, ConversationInv, ConversationTypeOK
<1>5. ~ lost => ~ HasAnswer(r)
  BY <1>1 DEF ConversationInv, ImageFits, TurnAt
<1>6. ImageFits(r)'
  BY <1>1, <1>2, <1>3, <1>4, <1>5, ImageSteps DEF ImageFits, BytesExplained, TurnAt
<1> QED
  BY <1>1, <1>2, <1>3, <1>6, ImageStepFits

LEMMA InsertRowFits ==
  ASSUME ConversationInv, NEW r \in Turns, InsertRow(r)
  PROVE  ConversationInv'
<1>1. r \in Images /\ TurnAt(r, "row")
  BY KindOf DEF InsertRow, TurnAt, ImageLabels
<1>2. PICK a \in {"usage", "unupload"} :
        /\ ImageStep(r, a) /\ objects' = objects
        /\ \/ a = "usage" /\ exists /\ rows' = rows \cup {r}
           \/ a = "unupload"
  BY DEF InsertRow, Calls, ImageStep, NoFault, tables, Appendable, AfterRefusal
<1>3. a \in ImageLabels \cup {"end"}
  BY DEF ImageLabels
<1>4. (~ lost => ~ HasAnswer(r)) /\ (exists => r \in objects)
  BY <1>1 DEF ConversationInv, ImageFits, TurnAt
<1>5. ImageFits(r)'
  BY <1>1, <1>2, <1>3, <1>4, ImageSteps DEF ImageFits, BytesExplained, TurnAt
<1> QED
  BY <1>1, <1>2, <1>3, <1>5, ImageStepFits

LEMMA UnuploadFits ==
  ASSUME ConversationInv, NEW r \in Turns, Unupload(r)
  PROVE  ConversationInv'
<1>1. r \in Images /\ TurnAt(r, "unupload")
  BY KindOf DEF Unupload, TurnAt, ImageLabels
<1>2. ImageStep(r, "end") /\ rows' = rows /\ (objects' = objects \ {r} \/ Fault)
  BY DEF Unupload, Calls, ImageStep, NoFault, tables
<1>3. Fault => mishaps' # 0
  BY ConversationBounds DEF Fault, ConversationInv, ConversationTypeOK
<1>4. ~ lost => ~ HasAnswer(r)
  BY <1>1 DEF ConversationInv, ImageFits, TurnAt
<1>5. ImageFits(r)'
  BY <1>1, <1>2, <1>3, <1>4, ImageSteps DEF ImageFits, TurnAt
<1> QED
  BY <1>1, <1>2, <1>5, ImageStepFits

LEMMA RemoveBytesFits ==
  ASSUME ConversationInv, NEW r \in Turns, RemoveBytes(r)
  PROVE  ConversationInv'
<1>1. r \in Images /\ TurnAt(r, "bytes")
  BY KindOf DEF RemoveBytes, TurnAt, ImageLabels
<1>2. ImageStep(r, "metadata") /\ rows' = rows /\ (objects' = objects \ {r} \/ Fault)
  BY DEF RemoveBytes, Calls, ImageStep, NoFault, tables
<1>3. Fault => mishaps' # 0
  BY ConversationBounds DEF Fault, ConversationInv, ConversationTypeOK
<1>4. ~ lost => ~ HasAnswer(r)
  BY <1>1 DEF ConversationInv, ImageFits, TurnAt
<1>5. "metadata" \in ImageLabels
  BY DEF ImageLabels
<1>6. ImageFits(r)'
  BY <1>1, <1>2, <1>3, <1>4, <1>5, ImageSteps DEF ImageFits, TurnAt
<1> QED
  BY <1>1, <1>2, <1>5, <1>6, ImageStepFits

LEMMA RemoveRowFits ==
  ASSUME ConversationInv, NEW r \in Turns, RemoveRow(r)
  PROVE  ConversationInv'
<1>1. r \in Images /\ TurnAt(r, "metadata")
  BY KindOf DEF RemoveRow, TurnAt, ImageLabels
<1>2. ImageStep(r, "end") /\ objects' = objects
  BY DEF RemoveRow, Calls, ImageStep, NoFault, tables
<1>3. (~ lost => ~ HasAnswer(r)) /\ (mishaps = 0 => r \notin objects)
  BY <1>1 DEF ConversationInv, ImageFits, TurnAt
<1>4. ImageFits(r)'
  BY <1>1, <1>2, <1>3, ImageSteps DEF ImageFits, TurnAt
<1> QED
  BY <1>1, <1>2, <1>4, ImageStepFits

LEMMA GenerateFits ==
  ASSUME ConversationInv, NEW r \in Turns, Generate(r)
  PROVE  ConversationInv'
<1>1. r \in Images /\ r \notin Chats \cup Planners /\ TurnAt(r, "generate")
  BY KindOf, ConversationBounds DEF Generate, TurnAt, ImageLabels
<1>2. PICK a \in {"upload", "end"} : Goto(r, a)
  BY DEF Generate
<1>3. a \in Labels(r)
  BY <1>1, LabelsOf DEF ImageLabels
<1>4. PICK x \in Turn : Still(r, x) /\ x.at = a
  BY <1>2, <1>3, GoesQuietly DEF Generate
<1>5. ImageMoves(r, x)
  BY <1>1, <1>4 DEF ImageMoves, TurnAt
<1> QED
  BY <1>1, <1>3, <1>4, <1>5, QuietFits

LEMMA RecordUsageFits ==
  ASSUME ConversationInv, NEW r \in Turns, RecordUsage(r)
  PROVE  ConversationInv'
<1>1. r \in Images /\ r \notin Chats \cup Planners /\ TurnAt(r, "usage")
  BY KindOf, ConversationBounds DEF RecordUsage, TurnAt, ImageLabels
<1>2. PICK a \in {"message", "lookup"} : Goto(r, a)
  BY DEF RecordUsage
<1>3. a \in Labels(r)
  BY <1>1, LabelsOf DEF ImageLabels
<1>4. PICK x \in Turn : Still(r, x) /\ x.at = a
  BY <1>2, <1>3, GoesQuietly DEF RecordUsage
<1>5. ImageMoves(r, x)
  BY <1>1, <1>4 DEF ImageMoves, TurnAt
<1> QED
  BY <1>1, <1>3, <1>4, <1>5, QuietFits

LEMMA LookUpFits ==
  ASSUME ConversationInv, NEW r \in Turns, LookUp(r)
  PROVE  ConversationInv'
<1>1. r \in Images /\ r \notin Chats \cup Planners /\ TurnAt(r, "lookup")
  BY KindOf, ConversationBounds DEF LookUp, TurnAt, ImageLabels
<1>2. PICK a \in {"bytes", "end"} : Goto(r, a)
  BY DEF LookUp
<1>3. a \in Labels(r)
  BY <1>1, LabelsOf DEF ImageLabels
<1>4. PICK x \in Turn : Still(r, x) /\ x.at = a
  BY <1>2, <1>3, GoesQuietly DEF LookUp, NoFault
<1>5. ImageMoves(r, x)
  BY <1>1, <1>4 DEF ImageMoves, TurnAt
<1> QED
  BY <1>1, <1>3, <1>4, <1>5, QuietFits

-----------------------------------------------------------------------------
(* The steps of the deletion *)

LEMMA ListImagesFits ==
  ASSUME ConversationInv, ListImages
  PROVE  ConversationInv'
<1>1. /\ deletion.at = "idle"
      /\ deletion' = [at |-> "listed", paths |-> rows]
      /\ exists' = exists /\ log' = log /\ rows' = rows /\ objects' = objects
      /\ turns' = turns /\ mishaps' = mishaps /\ lost' = lost /\ missed' = missed
  BY DEF ListImages, tables
<1>2. ConversationTypeOK'
  BY <1>1 DEF ConversationInv, ConversationTypeOK
<1>3. (DeletedIsEmpty /\ DeletionFits)'
  BY <1>1 DEF ConversationInv, DeletedIsEmpty, DeletionFits
<1>4. \A r \in Turns : LabelFits(r)'
  BY <1>1 DEF ConversationInv, LabelFits, Labels
<1>5. \A r : HasAnswer(r)' <=> HasAnswer(r)
  BY <1>1 DEF HasAnswer
<1>6. ASSUME NEW i \in Images PROVE ImageFits(i)'
  <2>1. ImageFits(i)
    BY DEF ConversationInv
  <2> QED
    BY <1>1, <1>5, <2>1 DEF ImageFits, BytesExplained, TurnAt
<1>7. ASSUME NEW r \in Chats \cup Planners PROVE AnswerFits(r)'
  <2>1. AnswerFits(r)
    BY DEF ConversationInv
  <2> QED
    BY <1>1, <1>5, <2>1 DEF AnswerFits, Through, TurnAt
<1> QED
  BY <1>2, <1>3, <1>4, <1>6, <1>7 DEF ConversationInv

LEMMA DeleteRowsFits ==
  ASSUME ConversationInv, DeleteRows
  PROVE  ConversationInv'
<1>1. /\ deletion.at = "listed" /\ deletion'.paths = deletion.paths
      /\ deletion' \in [at : {"idle", "listed", "bytes", "end"}, paths : SUBSET Images]
      /\ objects' = objects /\ turns' = turns
  BY DEF DeleteRows, ConversationInv, ConversationTypeOK
<1>2. /\ missed = {} /\ rows \subseteq Images /\ objects \subseteq Images
      /\ mishaps \in 0 .. MaxMishaps /\ MaxMishaps \in Nat
  BY <1>1, ConversationBounds DEF ConversationInv, ConversationTypeOK, DeletionFits
<1>3. \/ /\ exists' = FALSE /\ log' = <<>> /\ rows' = {} /\ missed' = rows \ deletion.paths
         /\ \/ deletion'.at = "bytes" /\ mishaps' = mishaps /\ lost' = lost
            \/ deletion'.at = "end" /\ mishaps < MaxMishaps /\ mishaps' = mishaps + 1 /\ lost' = TRUE
      \/ /\ exists' = exists /\ log' = log /\ rows' = rows /\ missed' = missed /\ lost' = lost
         /\ deletion'.at = "end" /\ mishaps < MaxMishaps /\ mishaps' = mishaps + 1
  BY <1>1 DEF DeleteRows, NoFault, Fault, ConversationInv, ConversationTypeOK
<1>4. mishaps' \in 0 .. MaxMishaps /\ mishaps + 1 # 0
  BY <1>2, <1>3
<1>5. ConversationTypeOK'
  <2>1. ConversationTypeOK
    BY DEF ConversationInv
  <2>2. lost' \in BOOLEAN
    BY <1>3, <2>1 DEF ConversationTypeOK
  <2>3. exists' \in BOOLEAN
    BY <1>3, <2>1 DEF ConversationTypeOK
  <2>4. log' \in Seq(Message) /\ rows' \subseteq Images /\ missed' \subseteq Images
    <3>1. log' = <<>> \/ log' = log
      BY <1>3
    <3>2. rows' = {} \/ rows' = rows
      BY <1>3
    <3>3. missed' = rows \ deletion.paths \/ missed' = missed
      BY <1>3
    <3>4. log' \in Seq(Message)
      <4>1. <<>> \in Seq(Message)
        OBVIOUS
      <4>2. log \in Seq(Message)
        BY <2>1 DEF ConversationTypeOK
      <4> QED
        BY <3>1, <4>1, <4>2
    <3>5. rows' \subseteq Images /\ missed' \subseteq Images
      BY <2>1, <3>2, <3>3 DEF ConversationTypeOK
    <3> QED
      BY <3>4, <3>5
  <2> QED
    BY <1>1, <1>4, <2>1, <2>2, <2>3, <2>4 DEF ConversationTypeOK
<1>6. (DeletedIsEmpty /\ DeletionFits)'
  BY <1>3 DEF ConversationInv, DeletedIsEmpty, DeletionFits
<1>7. \A r \in Turns : LabelFits(r)'
  BY <1>1 DEF ConversationInv, LabelFits, Labels
<1>8. \/ ~ exists' /\ \A r : ~ HasAnswer(r)'
      \/ log' = log /\ \A r : HasAnswer(r)' <=> HasAnswer(r)
  <2>1. log' = <<>> => \A r : ~ HasAnswer(r)'
    BY DEF HasAnswer
  <2>2. log' = log => \A r : HasAnswer(r)' <=> HasAnswer(r)
    BY DEF HasAnswer
  <2> QED
    BY <1>3, <2>1, <2>2
<1>9. ASSUME NEW i \in Images PROVE ImageFits(i)'
  <2>1. ImageFits(i)
    BY DEF ConversationInv
  <2>2. mishaps' = 0 /\ i \in objects' => BytesExplained(i)'
    BY <1>1, <1>2, <1>3, <1>4, <2>1 DEF ImageFits, BytesExplained
  <2>3. mishaps' = 0 => mishaps = 0
    BY <1>3, <1>4
  <2>4. ~ lost' /\ HasAnswer(i)' => TurnAt(i, "end")' /\ i \in rows' \cap objects'
    <3>1. CASE log' = <<>>
      BY <3>1 DEF HasAnswer
    <3>2. CASE log' = log /\ rows' = rows /\ lost' = lost
      <4>1. HasAnswer(i)' <=> HasAnswer(i)
        BY <3>2 DEF HasAnswer
      <4> QED
        BY <1>1, <3>2, <4>1, <2>1 DEF ImageFits, TurnAt
    <3> QED
      BY <1>3, <3>1, <3>2
  <2>5. exists' => exists /\ rows' = rows
    BY <1>3
  <2> QED
    BY <1>1, <2>1, <2>2, <2>3, <2>4, <2>5 DEF ImageFits, TurnAt
<1>10. ASSUME NEW r \in Chats \cup Planners PROVE AnswerFits(r)'
  <2>1. AnswerFits(r)
    BY DEF ConversationInv
  <2>2. mishaps' = 0 => ~ exists'
    BY <1>3, <1>4
  <2> QED
    BY <1>1, <2>1, <2>2 DEF AnswerFits
<1> QED
  BY <1>5, <1>6, <1>7, <1>9, <1>10 DEF ConversationInv

LEMMA DeleteBytesFits ==
  ASSUME ConversationInv, DeleteBytes
  PROVE  ConversationInv'
<1>1. /\ deletion.at = "bytes" /\ deletion' = [deletion EXCEPT !.at = "end"]
      /\ exists' = exists /\ log' = log /\ rows' = rows /\ turns' = turns /\ missed' = missed
      /\ \/ objects' = objects \ deletion.paths /\ mishaps' = mishaps /\ lost' = lost
         \/ mishaps < MaxMishaps /\ mishaps' = mishaps + 1 /\ objects' = objects /\ lost' = lost
  BY DEF DeleteBytes, Removed, NoFault, Fault
<1>2. /\ deletion' \in [at : {"idle", "listed", "bytes", "end"}, paths : SUBSET Images]
      /\ deletion'.at = "end"
  BY <1>1 DEF ConversationInv, ConversationTypeOK
<1>3. mishaps \in 0 .. MaxMishaps /\ MaxMishaps \in Nat
  BY ConversationBounds DEF ConversationInv, ConversationTypeOK
<1>4. mishaps' \in 0 .. MaxMishaps /\ mishaps + 1 # 0
  BY <1>1, <1>3
<1>5. ConversationTypeOK'
  BY <1>1, <1>2, <1>4 DEF ConversationInv, ConversationTypeOK
<1>6. ~ exists /\ log = <<>>
  BY <1>1 DEF ConversationInv, DeletionFits, DeletedIsEmpty
<1>7. (DeletedIsEmpty /\ DeletionFits)'
  BY <1>1, <1>2 DEF ConversationInv, DeletedIsEmpty, DeletionFits
<1>8. \A r \in Turns : LabelFits(r)'
  BY <1>1 DEF ConversationInv, LabelFits, Labels
<1>9. ~ exists' /\ \A r : ~ HasAnswer(r)'
  BY <1>1, <1>6 DEF HasAnswer
<1>10. ASSUME NEW i \in Images PROVE ImageFits(i)'
  <2>1. ImageFits(i)
    BY DEF ConversationInv
  <2>2. objects' \subseteq objects /\ (mishaps' = 0 => mishaps = 0 /\ objects' = objects \ deletion.paths)
    BY <1>1, <1>4
  <2>3. mishaps' = 0 /\ i \in objects' => BytesExplained(i)'
    BY <1>1, <2>1, <2>2 DEF ImageFits, BytesExplained
  <2> QED
    BY <1>1, <1>9, <2>1, <2>2, <2>3 DEF ImageFits, TurnAt
<1>11. ASSUME NEW r \in Chats \cup Planners PROVE AnswerFits(r)'
  <2>1. AnswerFits(r)
    BY DEF ConversationInv
  <2> QED
    BY <1>1, <1>9, <2>1 DEF AnswerFits
<1> QED
  BY <1>5, <1>7, <1>8, <1>10, <1>11 DEF ConversationInv

LEMMA NextConversationInv == ConversationInv /\ [ConversationNext]_conversationVars => ConversationInv'
<1> SUFFICES ASSUME ConversationInv, [ConversationNext]_conversationVars
             PROVE  ConversationInv'
  OBVIOUS
<1>1. CASE UNCHANGED conversationVars
  BY <1>1 DEF conversationVars, ConversationInv, ConversationTypeOK, DeletedIsEmpty, DeletionFits,
              LabelFits, Labels, ImageFits, BytesExplained, AnswerFits, Through, HasAnswer, TurnAt
<1>2. ASSUME NEW r \in Turns, BeginTurn(r) \/ TurnNext(r) \/ DieInTurn(r)
      PROVE  ConversationInv'
  <2>1. CASE AppendPrompt(r) \/ AppendAnswer(r) \/ AppendPartial(r) \/ AppendPlan(r) \/ AppendImage(r)
    BY <2>1, AppendPromptFits, AppendAnswerFits, AppendPartialFits, AppendPlanFits, AppendImageFits
  <2>2. CASE BeginTurn(r) \/ ReserveTurn(r) \/ DieInTurn(r) \/ ReadHistory(r) \/ Stream(r)
    BY <2>2, BeginTurnFits, ReserveTurnFits, DieInTurnFits, ReadHistoryFits, StreamFits
  <2>3. CASE PassOn(r) \/ AskProvider(r) \/ Generate(r) \/ RecordUsage(r) \/ LookUp(r)
    BY <2>3, PassOnFits, AskProviderFits, GenerateFits, RecordUsageFits, LookUpFits
  <2>4. CASE Upload(r) \/ InsertRow(r) \/ Unupload(r) \/ RemoveBytes(r) \/ RemoveRow(r)
    BY <2>4, UploadFits, InsertRowFits, UnuploadFits, RemoveBytesFits, RemoveRowFits
  <2> QED
    BY <1>2, <2>1, <2>2, <2>3, <2>4 DEF TurnNext
<1>3. ASSUME NEW r \in Chats, Leave(r) PROVE ConversationInv'
  BY <1>3, LeaveFits
<1> QED
  BY <1>1, <1>2, <1>3, ListImagesFits, DeleteRowsFits, DeleteBytesFits DEF ConversationNext

\* Whatever calls fail, answers get lost, requests die and the user deletes meanwhile:
\* nothing of a deleted conversation comes back, an image that a message shows has its
\* row and its bytes unless an answer was lost, and without faults bytes without a row
\* are about to be removed or were stored during the deletion, and every chat that was
\* granted and every plan leaves an answer (chat, plan and images routes of apps/web).
THEOREM ConversationIsSafe == ConversationSpec => []ConversationSafe
<1>1. ConversationInit => ConversationInv
  BY InitConversationInv
<1>2. ConversationInv /\ [ConversationNext]_conversationVars => ConversationInv'
  BY NextConversationInv
<1>3. ConversationInv => ConversationSafe
  BY ConversationInvSafe
<1> QED
  BY <1>1, <1>2, <1>3, PTL DEF ConversationSpec

USE BoundsAssumption, NoneAssumption

-----------------------------------------------------------------------------
(* The inductive invariant of Schedules *)

Working == {"dispatch", "created", "failed"}

\* A row that was due and active when it was read.
WasDue(row) == row.next \in Slots /\ row.failures < MaxFailures

\* A tick handles rows that were due and active when it read them.
Sound(x) ==
  x # None =>
    /\ \A i \in x.todo : WasDue(x.rows[i])
    /\ x.at \in Working => x.id \in Ids /\ WasDue(x.rows[x.id])

Base ==
  /\ TypeOK
  /\ FailuresPause
  /\ \A t \in Tickers : Sound(tickers[t])

TickerTable == [Tickers -> Ticker \cup {None}]

LEMMA InitBase == Init => Base
<1> SUFFICES ASSUME Init PROVE Base
  OBVIOUS
<1>1. [status |-> "active", next |-> Occurrence(0), failures |-> 0] \in Row
  BY DEF Row, Times, Occurrence
<1>2. TypeOK
  BY <1>1 DEF Init, TypeOK, Slots
<1>3. FailuresPause /\ \A t \in Tickers : Sound(tickers[t])
  BY DEF Init, FailuresPause, Sound
<1> QED
  BY <1>2, <1>3 DEF Base

-----------------------------------------------------------------------------
(* What a step of a tick does to the table of ticks *)

LEMMA TickerMoved ==
  ASSUME Base, NEW t \in Tickers, NEW x \in Ticker \cup {None}, Sound(x),
         tickers' = [tickers EXCEPT ![t] = x]
  PROVE  tickers' \in TickerTable /\ \A u \in Tickers : Sound(tickers[u])'
<1>1. tickers \in TickerTable /\ \A u \in Tickers : Sound(tickers[u])
  BY DEF Base, TypeOK, TickerTable
<1>2. tickers' \in TickerTable
  BY <1>1 DEF TickerTable
<1>3. ASSUME NEW u \in Tickers PROVE Sound(tickers'[u])
  <2>1. tickers'[u] = IF u = t THEN x ELSE tickers[u]
    BY <1>1 DEF TickerTable
  <2> QED
    BY <1>1, <2>1
<1> QED
  BY <1>2, <1>3 DEF Sound

\* A tick that goes on with the row it has.
LEMMA GoesOn ==
  ASSUME Base, NEW t \in Tickers, tickers[t] # None,
         NEW label \in {"next", "dispatch", "created", "failed"},
         label \in Working => tickers[t].at \in Working,
         NEW left \in SUBSET {"fire", "schedule"}, NEW ok \in BOOLEAN,
         tickers' = [tickers EXCEPT ![t] =
           [tickers[t] EXCEPT !.at = label, !.left = left, !.ok = ok]]
  PROVE  tickers' \in TickerTable /\ \A u \in Tickers : Sound(tickers[u])'
<1>1. tickers[t] \in Ticker /\ Sound(tickers[t])
  BY DEF Base, TypeOK
<1> DEFINE x == [tickers[t] EXCEPT !.at = label, !.left = left, !.ok = ok]
<1>2. x \in Ticker
  BY <1>1 DEF Ticker
<1>3. /\ x.todo = tickers[t].todo
      /\ x.rows = tickers[t].rows
      /\ x.id = tickers[t].id
      /\ x.at = label
  BY <1>1 DEF Ticker
<1>4. Sound(x)
  BY <1>1, <1>3 DEF Sound
<1> HIDE DEF x
<1> QED
  BY <1>2, <1>4, TickerMoved DEF x
LEMMA Enders ==
  ASSUME Base, NEW t \in Tickers, tickers' = [tickers EXCEPT ![t] = None]
  PROVE  tickers' \in TickerTable /\ \A u \in Tickers : Sound(tickers[u])'
  BY TickerMoved DEF Sound

LEMMA WritesMoved ==
  ASSUME Base, NEW t \in Tickers, NEW label \in {"created", "failed"},
         tickers[t] # None, tickers[t].at \in Working, Writes(t, label)
  PROVE  tickers' \in TickerTable /\ \A u \in Tickers : Sound(tickers[u])'
<1>1. tickers \in TickerTable
  BY DEF Base, TypeOK, TickerTable
<1>2. tickers' = [tickers EXCEPT ![t] =
        [tickers[t] EXCEPT !.at = label, !.left = {"fire", "schedule"}, !.ok = TRUE]]
  BY <1>1 DEF Writes, TickerTable
<1> QED
  BY <1>2, GoesOn DEF Working

LEMMA ServedMoved ==
  ASSUME Base, NEW t \in Tickers, NEW write, NEW ok \in BOOLEAN, tickers[t] # None,
         Served(t, write, ok)
  PROVE  tickers' \in TickerTable /\ \A u \in Tickers : Sound(tickers[u])'
<1>1. tickers[t] \in Ticker
  BY DEF Base, TypeOK
<1> DEFINE both == tickers[t].ok /\ ok
<1>2. both \in BOOLEAN
  OBVIOUS
<1>3. tickers' = [tickers EXCEPT ![t] =
        [tickers[t] EXCEPT !.at = tickers[t].at, !.left = @ \ {write}, !.ok = both]]
  BY <1>1 DEF Served, Ticker
<1>4. tickers[t].left \ {write} \in SUBSET {"fire", "schedule"}
      /\ tickers[t].at \in {"next", "dispatch", "created", "failed"}
  BY <1>1 DEF Ticker
<1> HIDE DEF both
<1> QED
  BY <1>2, <1>3, <1>4, GoesOn

-----------------------------------------------------------------------------
(* The tables *)

\* A row that is written back keeps the promise about failures.
LEMMA WrittenRow ==
  ASSUME NEW row \in Row, NEW copy \in Row, WasDue(copy),
         row.failures >= MaxFailures => row.status = "paused"
  PROVE  \A new \in {Succeeded(row, copy), Failed(copy)} :
           new \in Row /\ (new.failures >= MaxFailures => new.status = "paused")
<1>1. Occurrence(copy.next) \in Times /\ copy.failures + 1 \in 0 .. MaxFailures
  <2>1. copy.failures \in 0 .. MaxFailures /\ copy.failures < MaxFailures /\ copy.next \in 0 .. MaxTime
    BY DEF WasDue, Row, Slots
  <2> QED
    BY ONLY <2>1, BoundsAssumption DEF Times, Occurrence
<1>2. /\ Succeeded(row, copy) \in Row
      /\ Succeeded(row, copy).failures = 0
  <2>1. 0 \in 0 .. MaxFailures
    OBVIOUS
  <2> QED
    BY ONLY row \in Row, <1>1, <2>1 DEF Succeeded, Row
<1>3. /\ Failed(copy) \in Row
      /\ Failed(copy).failures >= MaxFailures => Failed(copy).status = "paused"
  BY ONLY <1>1 DEF Failed, Row
<1> QED
  BY <1>2, <1>3

LEMMA UserKeeps ==
  ASSUME Base, NEW i \in Ids, Pause(i) \/ Resume(i)
  PROVE  Base'
<1>1. schedules \in [Ids -> Row] /\ now \in Slots /\ requests \in Nat
      /\ wanted \in [Ids -> {"active", "paused"}]
  BY DEF Base, TypeOK
<1>2. CASE Pause(i)
  <2>1. schedules' \in [Ids -> Row]
    BY <1>1, <1>2 DEF Pause, Row
  <2>2. FailuresPause'
    BY <1>1, <1>2 DEF Pause, Base, FailuresPause, Row
  <2> QED
    BY <1>1, <1>2, <2>1, <2>2 DEF Pause, Base, TypeOK, Sound
<1>3. CASE Resume(i)
  <2>1. Resumed(schedules[i]) \in Row /\ Resumed(schedules[i]).failures = 0
    BY <1>1 DEF Resumed, Row, Times, Slots, Occurrence
  <2>2. schedules' = [schedules EXCEPT ![i] = Resumed(schedules[i])]
    BY <1>3 DEF Resume
  <2>3. schedules' \in [Ids -> Row] /\ FailuresPause'
    BY <1>1, <2>1, <2>2 DEF Base, FailuresPause
  <2> QED
    BY <1>1, <1>3, <2>3 DEF Resume, Base, TypeOK, Sound
<1> QED
  BY <1>2, <1>3

LEMMA ReadKeeps ==
  ASSUME Base, NEW t \in Tickers, TickRead(t)
  PROVE  Base'
<1>1. PICK D \in Selections : tickers' = [tickers EXCEPT
        ![t] = [at |-> "next", rows |-> schedules, todo |-> D, id |-> None,
                left |-> {}, ok |-> TRUE]]
  BY DEF TickRead
<1> DEFINE x == [at |-> "next", rows |-> schedules, todo |-> D, id |-> None,
                 left |-> {}, ok |-> TRUE]
<1>2. schedules \in [Ids -> Row] /\ now \in Slots
  BY DEF Base, TypeOK
<1>3. D \subseteq Due
  BY DEF Selections
<1>4. x \in Ticker
  BY <1>2, <1>3 DEF Ticker, Due
<1>5. \A i \in D : WasDue(schedules[i])
  <2> SUFFICES ASSUME NEW i \in D PROVE WasDue(schedules[i])
    OBVIOUS
  <2>1. i \in Ids /\ schedules[i].status = "active" /\ schedules[i].next <= now /\ schedules[i] \in Row
    BY <1>2, <1>3 DEF Due
  <2>2. ~ (schedules[i].failures >= MaxFailures)
    BY <2>1 DEF Base, FailuresPause
  <2> QED
    BY <1>2, <2>1, <2>2 DEF WasDue, Row, Times, Slots
<1>6. Sound(x)
  BY <1>5 DEF Sound, Working
<1>7. tickers' \in TickerTable /\ \A u \in Tickers : Sound(tickers[u])'
  <2> HIDE DEF x
  <2> QED
    BY <1>1, <1>4, <1>6, TickerMoved DEF x
<1> QED
  BY <1>7 DEF TickRead, Base, TypeOK, TickerTable, FailuresPause

LEMMA ClaimKeeps ==
  ASSUME Base, NEW t \in Tickers, Claim(t)
  PROVE  Base'
<1>1. tickers[t] # None /\ tickers[t] \in Ticker /\ Sound(tickers[t])
      /\ fires \in [Ids -> [Slots -> {"none", "claimed", "run_created", "failed"}]]
  BY DEF Claim, At, Base, TypeOK
<1>2. PICK i \in tickers[t].todo :
        LET k == tickers[t].rows[i].next
            rest == [tickers[t] EXCEPT !.todo = @ \ {i}, !.id = i]
        IN IF Claimable(i, k)
           THEN /\ fires' = [fires EXCEPT ![i][k] = "claimed"]
                /\ tickers' = [tickers EXCEPT ![t] = [rest EXCEPT !.at = "dispatch"]]
           ELSE /\ tickers' = [tickers EXCEPT ![t] = rest]
                /\ UNCHANGED fires
  BY DEF Claim
<1> DEFINE k == tickers[t].rows[i].next
           rest == [tickers[t] EXCEPT !.todo = @ \ {i}, !.id = i]
           x == IF Claimable(i, k) THEN [rest EXCEPT !.at = "dispatch"] ELSE rest
<1>3. i \in Ids /\ WasDue(tickers[t].rows[i]) /\ k \in Slots
  BY <1>1 DEF Sound, Ticker, WasDue
<1>4. tickers[t].at = "next"
  BY DEF Claim, At
<1>5. rest \in Ticker /\ rest.todo \subseteq tickers[t].todo /\ rest.id = i
      /\ rest.rows = tickers[t].rows /\ rest.at = "next"
  BY <1>1, <1>3, <1>4 DEF Ticker
<1>6. x \in Ticker /\ x.todo = rest.todo /\ x.id = i /\ x.rows = tickers[t].rows
  <2> HIDE DEF rest
  <2> QED
    BY <1>5 DEF Ticker
<1>7. Sound(x)
  <2> HIDE DEF x, rest
  <2> QED
    BY <1>1, <1>3, <1>5, <1>6 DEF Sound
<1>8. tickers' = [tickers EXCEPT ![t] = x]
  BY <1>2
<1>9. tickers' \in TickerTable /\ \A u \in Tickers : Sound(tickers[u])'
  <2> HIDE DEF x
  <2> QED
    BY <1>6, <1>7, <1>8, TickerMoved
<1>10. fires' \in [Ids -> [Slots -> {"none", "claimed", "run_created", "failed"}]]
  BY <1>1, <1>2, <1>3
<1> QED
  BY <1>9, <1>10 DEF Claim, Base, TypeOK, TickerTable, FailuresPause

LEMMA DispatchKeeps ==
  ASSUME Base, NEW t \in Tickers, Dispatch(t)
  PROVE  Base'
<1>1. tickers[t] # None /\ tickers[t].at = "dispatch" /\ tickers[t] \in Ticker /\ Sound(tickers[t])
  BY DEF Dispatch, At, Base, TypeOK
<1>2. tickers' \in TickerTable /\ \A u \in Tickers : Sound(tickers[u])'
  BY <1>1, WritesMoved DEF Dispatch, Working
<1>3. PICK i \in Ids, k \in Slots : dispatched' = [dispatched EXCEPT ![i][k] = @ + 1]
  <2>1. tickers[t].id \in Ids /\ Copy(t).next \in Slots
    BY <1>1 DEF Sound, Working, WasDue, Copy
  <2> QED
    BY <2>1 DEF Dispatch
<1>4. dispatched' \in [Ids -> [Slots -> Nat]]
  <2>1. dispatched \in [Ids -> [Slots -> Nat]] /\ dispatched[i][k] \in Nat
    BY DEF Base, TypeOK
  <2> QED
    BY <1>3, <2>1
<1> QED
  BY <1>2, <1>4 DEF Dispatch, Base, TypeOK, TickerTable, FailuresPause

LEMMA WriteFireKeeps ==
  ASSUME Base, NEW t \in Tickers, WriteFire(t)
  PROVE  Base'
<1>1. tickers[t] # None /\ tickers[t].at \in {"created", "failed"}
      /\ tickers[t] \in Ticker /\ Sound(tickers[t])
  BY DEF WriteFire, At, Base, TypeOK
<1>2. tickers' \in TickerTable /\ \A u \in Tickers : Sound(tickers[u])'
  <2>1. Served(t, "fire", TRUE) \/ Served(t, "fire", FALSE)
    BY DEF WriteFire
  <2> QED
    BY <1>1, <2>1, ServedMoved
<1>3. fires' \in [Ids -> [Slots -> {"none", "claimed", "run_created", "failed"}]]
  <2> DEFINE new == IF tickers[t].at = "created" THEN "run_created" ELSE "failed"
  <2>1. fires \in [Ids -> [Slots -> {"none", "claimed", "run_created", "failed"}]]
    BY DEF Base, TypeOK
  <2>2. PICK i, k : i = tickers[t].id /\ k = Copy(t).next
    OBVIOUS
  <2>3. fires' = [fires EXCEPT ![i][k] = new] \/ fires' = fires
    BY <2>2 DEF WriteFire
  <2>4. new \in {"none", "claimed", "run_created", "failed"}
    OBVIOUS
  <2>5. i \in Ids /\ k \in Slots
    BY <1>1, <2>2 DEF Sound, Working, WasDue, Copy
  <2> HIDE DEF new
  <2> QED
    BY <2>1, <2>3, <2>4, <2>5
<1> QED
  BY <1>2, <1>3 DEF WriteFire, Base, TypeOK, TickerTable, FailuresPause

LEMMA WriteScheduleKeeps ==
  ASSUME Base, NEW t \in Tickers, WriteSchedule(t)
  PROVE  Base'
<1>1. /\ tickers[t] # None /\ tickers[t].at \in {"created", "failed"}
      /\ tickers[t] \in Ticker /\ Sound(tickers[t])
      /\ schedules \in [Ids -> Row]
  BY DEF WriteSchedule, At, Base, TypeOK
<1>2. tickers' \in TickerTable /\ \A u \in Tickers : Sound(tickers[u])'
  BY <1>1, ServedMoved DEF WriteSchedule
<1>3. tickers[t].id \in Ids /\ Copy(t) \in Row /\ WasDue(Copy(t))
  BY <1>1 DEF Sound, Working, Copy, Ticker
<1>4. PICK i \in Ids : i = tickers[t].id
  BY <1>3
<1>5. PICK new \in {Succeeded(schedules[i], Copy(t)), Failed(Copy(t))} :
        schedules' = [schedules EXCEPT ![i] = new]
  BY <1>4 DEF WriteSchedule
<1>6. new \in Row /\ (new.failures >= MaxFailures => new.status = "paused")
  <2>1. schedules[i] \in Row
        /\ (schedules[i].failures >= MaxFailures => schedules[i].status = "paused")
    BY <1>1 DEF Base, FailuresPause
  <2> QED
    BY <1>3, <2>1, WrittenRow
<1>7. schedules' \in [Ids -> Row] /\ FailuresPause'
  BY <1>1, <1>5, <1>6 DEF Base, FailuresPause
<1> QED
  BY <1>2, <1>7 DEF WriteSchedule, Base, TypeOK, TickerTable

LEMMA FaultKeeps ==
  ASSUME Base, NEW t \in Tickers, WriteFails(t) \/ TickDies(t)
  PROVE  Base'
<1>1. tickers' \in TickerTable /\ \A u \in Tickers : Sound(tickers[u])'
  <2>1. CASE WriteFails(t)
    BY <2>1, ServedMoved DEF WriteFails, At
  <2>2. CASE TickDies(t)
    BY <2>2, Enders DEF TickDies
  <2> QED
    BY <2>1, <2>2
<1>2. faults' \in Nat
  <2>1. faults \in Nat
    BY DEF Base, TypeOK
  <2>2. faults' = faults + 1
    BY DEF WriteFails, TickDies
  <2> QED
    BY ONLY <2>1, <2>2
<1>3. UNCHANGED <<now, schedules, fires, requests, dispatched, wanted>>
  BY DEF WriteFails, TickDies
<1> QED
  BY <1>1, <1>2, <1>3 DEF Base, TypeOK, TickerTable, FailuresPause

LEMMA SettleKeeps ==
  ASSUME Base, NEW t \in Tickers, Settle(t) \/ TickEnds(t)
  PROVE  Base'
<1>1. tickers[t] # None /\ tickers[t] \in Ticker
  BY DEF Settle, TickEnds, At, Base, TypeOK
<1>2. tickers' \in TickerTable /\ \A u \in Tickers : Sound(tickers[u])'
  <2>1. CASE tickers' = [tickers EXCEPT ![t] = None]
    BY <2>1, Enders
  <2>2. CASE tickers' = [tickers EXCEPT ![t].at = "next"]
    <3>1. tickers \in TickerTable
      BY DEF Base, TypeOK, TickerTable
    <3>2. tickers' = [tickers EXCEPT ![t] = [tickers[t] EXCEPT
            !.at = "next", !.left = tickers[t].left, !.ok = tickers[t].ok]]
      BY <1>1, <2>2, <3>1 DEF TickerTable, Ticker
    <3>3. tickers[t].left \in SUBSET {"fire", "schedule"} /\ tickers[t].ok \in BOOLEAN
      BY <1>1 DEF Ticker
    <3> QED
      BY <1>1, <3>2, <3>3, GoesOn DEF Working
  <2>3. CASE Writes(t, "failed") /\ tickers[t].at = "created"
    BY <1>1, <2>3, WritesMoved DEF Working
  <2> QED
    BY <2>1, <2>2, <2>3 DEF Settle, TickEnds
<1>3. UNCHANGED <<now, schedules, fires, faults, requests, dispatched, wanted>>
  BY DEF Settle, TickEnds
<1> QED
  BY <1>2, <1>3 DEF Base, TypeOK, TickerTable, FailuresPause

LEMMA BaseKept == Base /\ [Next]_vars => Base'
<1> SUFFICES ASSUME Base, [Next]_vars PROVE Base'
  OBVIOUS
<1>1. ASSUME NEW t \in Tickers, TickRead(t) \/ TickNext(t) \/ WriteFails(t) \/ TickDies(t)
      PROVE  Base'
  BY <1>1, ReadKeeps, ClaimKeeps, DispatchKeeps, WriteFireKeeps, WriteScheduleKeeps,
     FaultKeeps, SettleKeeps DEF TickNext
<1>2. ASSUME NEW i \in Ids, Pause(i) \/ Resume(i)
      PROVE  Base'
  BY <1>2, UserKeeps
<1>3. CASE Pass
  BY <1>3 DEF Pass, Base, TypeOK, FailuresPause, Sound, Slots
<1>4. CASE UNCHANGED vars
  BY <1>4 DEF vars, Base, TypeOK, FailuresPause, Sound
<1> QED
  BY <1>1, <1>2, <1>3, <1>4 DEF Next

LEMMA BaseAlways == Spec => []Base
  BY InitBase, BaseKept, PTL DEF Spec

\* Every state of the ticks and of the tables has the form that TypeOK gives it.
THEOREM TypeCorrect == Spec => []TypeOK
<1>1. Base => TypeOK
  BY DEF Base
<1> QED
  BY <1>1, BaseAlways, PTL

\* A schedule that has failed max_failures times in a row is paused, whatever rows
\* overlapping ticks still write back and whenever users resume it.
THEOREM PausesAfterFailures == Spec => []FailuresPause
<1>1. Base => FailuresPause
  BY DEF Base
<1> QED
  BY <1>1, BaseAlways, PTL

-----------------------------------------------------------------------------
(* An occurrence is dispatched once *)

\* Tick t is about to ask for a run of occurrence k of i.
About(t, i, k) == At(t, "dispatch") /\ tickers[t].id = i /\ Copy(t).next = k

\* The claim of an occurrence comes before its dispatch, only one tick has it, and it
\* is never given back.
OnceOf(i, k) ==
  /\ dispatched[i][k] <= 1
  /\ fires[i][k] = "none" => dispatched[i][k] = 0
  /\ \A t \in Tickers : About(t, i, k) => fires[i][k] # "none" /\ dispatched[i][k] = 0
  /\ \A t, u \in Tickers : About(t, i, k) /\ About(u, i, k) => t = u

Once == \A i \in Ids, k \in Slots : OnceOf(i, k)

\* No other tick gets to the point of a dispatch, and no fire row appears or vanishes.
Quiet ==
  /\ \A u \in Tickers : tickers'[u] = tickers[u] \/ ~ At(u, "dispatch")'
  /\ \A i \in Ids, k \in Slots : fires[i][k] = "none" <=> fires'[i][k] = "none"
  /\ dispatched' = dispatched

LEMMA QuietKeeps ==
  ASSUME Once, Quiet
  PROVE  Once'
<1>1. \A u \in Tickers : \A i, k : About(u, i, k)' => About(u, i, k)
  BY DEF Quiet, About, At, Copy
<1> SUFFICES ASSUME NEW i \in Ids, NEW k \in Slots PROVE OnceOf(i, k)'
  BY DEF Once
<1>2. OnceOf(i, k) /\ dispatched' = dispatched /\ (fires[i][k] = "none" <=> fires'[i][k] = "none")
  BY DEF Once, Quiet
<1> QED
  BY <1>1, <1>2 DEF OnceOf

LEMMA ClaimOnce ==
  ASSUME Base, Once, NEW t \in Tickers, Claim(t)
  PROVE  Once'
<1>1. /\ tickers[t] # None /\ tickers[t] \in Ticker /\ Sound(tickers[t])
      /\ tickers[t].at = "next"
      /\ fires \in [Ids -> [Slots -> {"none", "claimed", "run_created", "failed"}]]
      /\ tickers \in TickerTable
  BY DEF Claim, At, Base, TypeOK, TickerTable
<1>2. PICK i \in tickers[t].todo :
        LET k == tickers[t].rows[i].next
            rest == [tickers[t] EXCEPT !.todo = @ \ {i}, !.id = i]
        IN IF Claimable(i, k)
           THEN /\ fires' = [fires EXCEPT ![i][k] = "claimed"]
                /\ tickers' = [tickers EXCEPT ![t] = [rest EXCEPT !.at = "dispatch"]]
           ELSE /\ tickers' = [tickers EXCEPT ![t] = rest]
                /\ UNCHANGED fires
  BY DEF Claim
<1>3. PICK k : k = tickers[t].rows[i].next
  OBVIOUS
<1>4. i \in Ids /\ k \in Slots
  BY <1>1, <1>3 DEF Sound, Ticker, WasDue
<1> DEFINE rest == [tickers[t] EXCEPT !.todo = @ \ {i}, !.id = i]
<1>5. dispatched' = dispatched
  BY DEF Claim
<1>6. CASE Claimable(i, k)
  <2>1. fires' = [fires EXCEPT ![i][k] = "claimed"]
    BY <1>2, <1>3, <1>6
  <2>2. tickers' = [tickers EXCEPT ![t] = [rest EXCEPT !.at = "dispatch"]]
    BY <1>2, <1>3, <1>6
  <2>3. /\ [rest EXCEPT !.at = "dispatch"].id = i
        /\ [rest EXCEPT !.at = "dispatch"].rows[i].next = k
    BY <1>1, <1>3 DEF Ticker
  <2>4. \A u \in Tickers : u # t => tickers'[u] = tickers[u]
    BY <1>1, <2>2 DEF TickerTable
  <2>5. tickers'[t] = [rest EXCEPT !.at = "dispatch"]
    BY <1>1, <2>2 DEF TickerTable
  <2>6. \A j, n : About(t, j, n)' => j = i /\ n = k
    <3> HIDE DEF rest
    <3> QED
      BY <2>3, <2>5 DEF About, Copy
  <2>7. \A u \in Tickers : u # t => \A j, n : About(u, j, n)' => About(u, j, n)
    BY <2>4 DEF About, At, Copy
  <2>8. fires[i][k] = "none" /\ fires'[i][k] # "none"
    BY <1>1, <1>4, <1>6, <2>1 DEF Claimable
  <2>9. \A u \in Tickers : ~ About(u, i, k)
    BY <1>4, <2>8 DEF Once, OnceOf
  <2>10. OnceOf(i, k)'
    BY <1>4, <1>5, <2>6, <2>7, <2>8, <2>9 DEF Once, OnceOf
  <2>11. ASSUME NEW j \in Ids, NEW n \in Slots, j # i \/ n # k
         PROVE  OnceOf(j, n)'
    <3>1. fires'[j][n] = fires[j][n]
      BY <1>1, <1>4, <2>1, <2>11
    <3>2. OnceOf(j, n)
      BY DEF Once
    <3> QED
      BY <1>5, <2>6, <2>7, <2>11, <3>1, <3>2 DEF OnceOf
  <2> QED
    BY <2>10, <2>11 DEF Once
<1>7. CASE ~ Claimable(i, k)
  <2>1. tickers' = [tickers EXCEPT ![t] = rest] /\ fires' = fires
    BY <1>2, <1>3, <1>7
  <2>2. rest.at = "next"
    BY <1>1 DEF Ticker
  <2>3. \A u \in Tickers : tickers'[u] = tickers[u] \/ ~ At(u, "dispatch")'
    <3> HIDE DEF rest
    <3> QED
      BY <1>1, <2>1, <2>2 DEF TickerTable, At
  <2> QED
    BY <1>5, <2>1, <2>3, QuietKeeps DEF Quiet
<1> QED
  BY <1>6, <1>7

LEMMA DispatchOnce ==
  ASSUME Base, Once, NEW t \in Tickers, Dispatch(t)
  PROVE  Once'
<1>1. /\ tickers[t] # None /\ tickers[t] \in Ticker /\ Sound(tickers[t])
      /\ tickers[t].at = "dispatch"
      /\ dispatched \in [Ids -> [Slots -> Nat]]
      /\ tickers \in TickerTable
  BY DEF Dispatch, At, Base, TypeOK, TickerTable
<1>2. PICK i, k : i = tickers[t].id /\ k = Copy(t).next
  OBVIOUS
<1>3. i \in Ids /\ k \in Slots
  BY <1>1, <1>2 DEF Sound, Working, WasDue, Copy
<1>4. About(t, i, k)
  BY <1>1, <1>2 DEF About, At
<1>5. dispatched' = [dispatched EXCEPT ![i][k] = @ + 1] /\ fires' = fires
  BY <1>2 DEF Dispatch
<1>6. \A u \in Tickers : u # t => tickers'[u] = tickers[u]
  BY <1>1 DEF Dispatch, Writes, TickerTable
<1>7. ~ At(t, "dispatch")'
  <2>1. CASE Writes(t, "created")
    BY <1>1, <2>1 DEF Writes, TickerTable, Ticker, At
  <2>2. CASE Writes(t, "failed")
    BY <1>1, <2>2 DEF Writes, TickerTable, Ticker, At
  <2> QED
    BY <2>1, <2>2 DEF Dispatch
<1>8. \A u \in Tickers : \A j, n : About(u, j, n)' => u # t /\ About(u, j, n)
  BY <1>6, <1>7 DEF About, At, Copy
<1>9. OnceOf(i, k)'
  <2>1. OnceOf(i, k)
    BY <1>3 DEF Once
  <2>2. fires'[i][k] # "none" /\ dispatched[i][k] = 0
    BY <1>4, <1>5, <2>1 DEF OnceOf
  <2>3. dispatched'[i][k] = 1
    BY <1>1, <1>3, <1>5, <2>2
  <2>4. \A u \in Tickers : ~ About(u, i, k)'
    BY <1>4, <1>8, <2>1 DEF OnceOf
  <2> QED
    BY <2>2, <2>3, <2>4 DEF OnceOf
<1>10. ASSUME NEW j \in Ids, NEW n \in Slots, j # i \/ n # k
       PROVE  OnceOf(j, n)'
  <2>1. OnceOf(j, n)
    BY DEF Once
  <2>2. dispatched'[j][n] = dispatched[j][n]
    BY <1>1, <1>3, <1>5, <1>10
  <2> QED
    BY <1>5, <1>8, <2>1, <2>2 DEF OnceOf
<1> QED
  BY <1>9, <1>10 DEF Once

\* A step that sets one tick's entry to one that is not at a dispatch.
LEMMA Elsewhere ==
  ASSUME Base, NEW t \in Tickers, NEW x, tickers' = [tickers EXCEPT ![t] = x],
         x # None => x.at # "dispatch"
  PROVE  \A u \in Tickers : tickers'[u] = tickers[u] \/ ~ At(u, "dispatch")'
  BY DEF Base, TypeOK, At

LEMMA ServedElsewhere ==
  ASSUME Base, NEW t \in Tickers, NEW write, NEW ok, Served(t, write, ok),
         At(t, "created") \/ At(t, "failed")
  PROVE  \A u \in Tickers : tickers'[u] = tickers[u] \/ ~ At(u, "dispatch")'
<1>1. tickers[t] \in Ticker /\ tickers \in TickerTable
  BY DEF At, Base, TypeOK, TickerTable
<1> DEFINE both == tickers[t].ok /\ ok
           x == [tickers[t] EXCEPT !.left = @ \ {write}, !.ok = both]
<1>2. x.at # "dispatch"
  <2> HIDE DEF both
  <2> QED
    BY <1>1 DEF At, Ticker
<1>3. tickers' = [tickers EXCEPT ![t] = x]
  BY <1>1 DEF Served, TickerTable
<1> HIDE DEF x
<1> QED
  BY <1>2, <1>3, Elsewhere

LEMMA WritesElsewhere ==
  ASSUME Base, NEW t \in Tickers, tickers[t] # None, Writes(t, "failed")
  PROVE  \A u \in Tickers : tickers'[u] = tickers[u] \/ ~ At(u, "dispatch")'
<1>1. tickers[t] \in Ticker /\ tickers \in TickerTable
  BY DEF Base, TypeOK, TickerTable
<1> DEFINE x == [tickers[t] EXCEPT !.at = "failed", !.left = {"fire", "schedule"}, !.ok = TRUE]
<1>2. x.at # "dispatch"
  BY <1>1 DEF Ticker
<1>3. tickers' = [tickers EXCEPT ![t] = x]
  BY <1>1 DEF Writes, TickerTable
<1> HIDE DEF x
<1> QED
  BY <1>2, <1>3, Elsewhere

LEMMA TickOnce ==
  ASSUME Base, Once, NEW t \in Tickers,
         TickRead(t) \/ TickNext(t) \/ WriteFails(t) \/ TickDies(t)
  PROVE  Once'
<1>1. CASE TickRead(t)
  <2>1. PICK D \in Selections : tickers' = [tickers EXCEPT
          ![t] = [at |-> "next", rows |-> schedules, todo |-> D, id |-> None,
                  left |-> {}, ok |-> TRUE]]
    BY <1>1 DEF TickRead
  <2>2. \A u \in Tickers : tickers'[u] = tickers[u] \/ ~ At(u, "dispatch")'
    BY <2>1, Elsewhere
  <2> QED
    BY <1>1, <2>2, QuietKeeps DEF Quiet, TickRead
<1>2. CASE WriteFire(t)
  <2>1. \A u \in Tickers : tickers'[u] = tickers[u] \/ ~ At(u, "dispatch")'
    BY <1>2, ServedElsewhere DEF WriteFire
  <2>2. PICK j, n : j = tickers[t].id /\ n = Copy(t).next
    OBVIOUS
  <2> DEFINE new == IF tickers[t].at = "created" THEN "run_created" ELSE "failed"
  <2>3. (fires[j][n] = "claimed" /\ fires' = [fires EXCEPT ![j][n] = new]) \/ fires' = fires
    BY <1>2, <2>2 DEF WriteFire
  <2>4. new # "none"
    OBVIOUS
  <2>5. fires \in [Ids -> [Slots -> {"none", "claimed", "run_created", "failed"}]]
    BY DEF Base, TypeOK
  <2>6. \A i \in Ids, k \in Slots : fires[i][k] = "none" <=> fires'[i][k] = "none"
    <3> HIDE DEF new
    <3> QED
      BY <2>3, <2>4, <2>5
  <2> QED
    BY <1>2, <2>1, <2>6, QuietKeeps DEF Quiet, WriteFire
<1>3. CASE WriteSchedule(t)
  <2>1. \A u \in Tickers : tickers'[u] = tickers[u] \/ ~ At(u, "dispatch")'
    BY <1>3, ServedElsewhere DEF WriteSchedule
  <2> QED
    BY <1>3, <2>1, QuietKeeps DEF Quiet, WriteSchedule
<1>4. CASE WriteFails(t)
  <2>1. \A u \in Tickers : tickers'[u] = tickers[u] \/ ~ At(u, "dispatch")'
    BY <1>4, ServedElsewhere DEF WriteFails
  <2> QED
    BY <1>4, <2>1, QuietKeeps DEF Quiet, WriteFails
<1>5. CASE TickDies(t) \/ TickEnds(t)
  <2>1. tickers' = [tickers EXCEPT ![t] = None]
    BY <1>5 DEF TickDies, TickEnds
  <2>2. \A u \in Tickers : tickers'[u] = tickers[u] \/ ~ At(u, "dispatch")'
    BY <2>1, Elsewhere
  <2> QED
    BY <1>5, <2>2, QuietKeeps DEF Quiet, TickDies, TickEnds
<1>6. CASE Settle(t)
  <2>1. tickers[t] \in Ticker /\ tickers \in TickerTable /\ tickers[t] # None
    BY <1>6 DEF Settle, At, Base, TypeOK, TickerTable
  <2>2. CASE tickers' = [tickers EXCEPT ![t].at = "next"]
    <3>1. tickers' = [tickers EXCEPT ![t] = [tickers[t] EXCEPT !.at = "next"]]
      BY <2>1, <2>2 DEF TickerTable
    <3>2. [tickers[t] EXCEPT !.at = "next"].at # "dispatch"
      BY <2>1 DEF Ticker
    <3> QED
      BY <1>6, <3>1, <3>2, Elsewhere, QuietKeeps DEF Quiet, Settle
  <2>3. CASE Writes(t, "failed")
    BY <1>6, <2>1, <2>3, WritesElsewhere, QuietKeeps DEF Quiet, Settle
  <2>4. CASE tickers' = [tickers EXCEPT ![t] = None]
    BY <1>6, <2>4, Elsewhere, QuietKeeps DEF Quiet, Settle
  <2> QED
    BY <1>6, <2>2, <2>3, <2>4 DEF Settle
<1> QED
  BY <1>1, <1>2, <1>3, <1>4, <1>5, <1>6, ClaimOnce, DispatchOnce DEF TickNext

LEMMA OnceKept == Base /\ Once /\ [Next]_vars => Once'
<1> SUFFICES ASSUME Base, Once, [Next]_vars PROVE Once'
  OBVIOUS
<1>1. ASSUME UNCHANGED <<tickers, fires, dispatched>> PROVE Once'
  BY <1>1, QuietKeeps DEF Quiet
<1>2. ASSUME NEW i \in Ids, Pause(i) \/ Resume(i) PROVE Once'
  BY <1>1, <1>2 DEF Pause, Resume
<1>3. CASE Pass \/ UNCHANGED vars
  BY <1>1, <1>3 DEF Pass, vars
<1> QED
  BY <1>2, <1>3, TickOnce DEF Next

LEMMA InitOnce == Init => Once
  BY DEF Init, Once, OnceOf, About, At

\* A run is asked for at most once for an occurrence, however ticks overlap, die and
\* fail to write and whatever users do: the claim of the fire row is what prevents it.
THEOREM DispatchedAtMostOnce == Spec => []DispatchedOnce
<1>1. Once => DispatchedOnce
  BY DEF Once, OnceOf, DispatchedOnce
<1>2. Spec => []Once
  BY InitOnce, OnceKept, BaseAlways, PTL DEF Spec
<1> QED
  BY <1>1, <1>2, PTL

-----------------------------------------------------------------------------
(* No occurrence is skipped *)

\* Every occurrence of i before m was dispatched.
Passed(i, m) == \A k \in 1 .. MaxTime : k < m => dispatched[i][k] # 0

Written == {"created", "failed"}

\* The rows a tick has read had only passed what was dispatched, and when it comes to
\* move a schedule on, the occurrence it moves past was dispatched too.
Follows(x) ==
  x # None =>
    /\ \A i \in Ids : Passed(i, x.rows[i].next)
    /\ x.at \in Written => dispatched[x.id][x.rows[x.id].next] # 0

Covered ==
  /\ \A i \in Ids : Passed(i, schedules[i].next)
  /\ \A t \in Tickers : Follows(tickers[t])

\* Dispatches are never taken back.
Grows == \A i \in Ids, k \in Slots : dispatched[i][k] # 0 => dispatched'[i][k] # 0

LEMMA PassedKept ==
  ASSUME Grows, NEW i \in Ids, NEW m, Passed(i, m)
  PROVE  \A k \in 1 .. MaxTime : k < m => dispatched'[i][k] # 0
  BY DEF Grows, Passed, Slots

\* A tick that keeps its rows, and that is at the writes only when it was before.
LEMMA FollowsOn ==
  ASSUME Base, Covered, Grows, NEW t \in Tickers, NEW x,
         tickers[t] # None, x.rows = tickers[t].rows,
         x.at \in Written => tickers[t].at \in Written /\ x.id = tickers[t].id,
         tickers' = [tickers EXCEPT ![t] = x]
  PROVE  \A u \in Tickers : Follows(tickers[u])'
<1> SUFFICES ASSUME NEW u \in Tickers, tickers'[u] # None
             PROVE  /\ \A i \in Ids, k \in 1 .. MaxTime :
                         k < tickers'[u].rows[i].next => dispatched'[i][k] # 0
                    /\ tickers'[u].at \in Written =>
                         dispatched'[tickers'[u].id][tickers'[u].rows[tickers'[u].id].next] # 0
  BY DEF Follows, Passed
<1>1. tickers[u] # None /\ Follows(tickers[u]) /\ Sound(tickers[u])
      /\ tickers'[u].rows = tickers[u].rows
      /\ (tickers'[u].at \in Written => tickers[u].at \in Written /\ tickers'[u].id = tickers[u].id)
  BY DEF Base, TypeOK, Covered
<1>2. \A i \in Ids : Passed(i, tickers[u].rows[i].next)
  BY <1>1 DEF Follows
<1>3. ASSUME tickers[u].at \in Written
      PROVE  dispatched'[tickers[u].id][tickers[u].rows[tickers[u].id].next] # 0
  <2>1. tickers[u].id \in Ids /\ tickers[u].rows[tickers[u].id].next \in Slots
    BY <1>1, <1>3 DEF Sound, Working, Written, WasDue
  <2> QED
    BY <1>1, <1>3, <2>1 DEF Follows, Grows
<1> QED
  BY <1>1, <1>2, <1>3, PassedKept

\* A step that leaves dispatched and the ticks' rows alone, and does not touch the
\* schedules.
LEMMA TickCovers ==
  ASSUME Base, Covered, NEW t \in Tickers,
         \/ TickRead(t) \/ Claim(t) \/ WriteFire(t) \/ Settle(t)
         \/ TickEnds(t) \/ WriteFails(t) \/ TickDies(t)
  PROVE  Covered'
<1>1. tickers \in TickerTable /\ (tickers[t] # None => tickers[t] \in Ticker)
  BY DEF Base, TypeOK, TickerTable
<1>2. schedules' = schedules /\ dispatched' = dispatched
  BY DEF TickRead, Claim, WriteFire, Settle, TickEnds, WriteFails, TickDies
<1>3. Grows
  BY <1>2 DEF Grows
<1>4. ASSUME \A u \in Tickers : Follows(tickers[u])' PROVE Covered'
  BY <1>2, <1>4 DEF Covered, Passed
<1>5. CASE tickers' = [tickers EXCEPT ![t] = None]
  <2>1. \A u \in Tickers : tickers'[u] = tickers[u] \/ tickers'[u] = None
    BY <1>1, <1>5 DEF TickerTable
  <2> QED
    BY <1>2, <1>4, <2>1 DEF Covered, Follows, Passed
<1>6. CASE TickRead(t)
  <2>1. PICK D \in Selections : tickers' = [tickers EXCEPT
          ![t] = [at |-> "next", rows |-> schedules, todo |-> D, id |-> None,
                  left |-> {}, ok |-> TRUE]]
    BY <1>6 DEF TickRead
  <2>2. ASSUME NEW u \in Tickers PROVE Follows(tickers[u])'
    <3>1. CASE u # t
      BY <1>1, <1>2, <2>1, <3>1 DEF Covered, Follows, Passed, TickerTable
    <3>2. CASE u = t
      <4>1. tickers'[u].rows = schedules /\ tickers'[u].at = "next"
        BY <1>1, <2>1, <3>2 DEF TickerTable
      <4> QED
        BY <1>2, <4>1 DEF Covered, Follows, Passed, Written
    <3> QED
      BY <3>1, <3>2
  <2> QED
    BY <1>4, <2>2
<1>7. CASE Claim(t)
  <2>1. tickers[t] # None /\ tickers[t] \in Ticker /\ tickers[t].at = "next"
    BY <1>1, <1>7 DEF Claim, At
  <2>2. PICK i \in tickers[t].todo, label \in {"next", "dispatch"} :
          tickers' = [tickers EXCEPT ![t] =
            [tickers[t] EXCEPT !.todo = @ \ {i}, !.id = i, !.at = label]]
    <3>1. PICK i \in tickers[t].todo :
            LET rest == [tickers[t] EXCEPT !.todo = @ \ {i}, !.id = i]
            IN tickers' = [tickers EXCEPT ![t] = rest]
               \/ tickers' = [tickers EXCEPT ![t] = [rest EXCEPT !.at = "dispatch"]]
      BY <1>7 DEF Claim
    <3>2. [tickers[t] EXCEPT !.todo = @ \ {i}, !.id = i]
          = [tickers[t] EXCEPT !.todo = @ \ {i}, !.id = i, !.at = "next"]
      BY <2>1 DEF Ticker
    <3>3. [[tickers[t] EXCEPT !.todo = @ \ {i}, !.id = i] EXCEPT !.at = "dispatch"]
          = [tickers[t] EXCEPT !.todo = @ \ {i}, !.id = i, !.at = "dispatch"]
      BY <2>1 DEF Ticker
    <3> QED
      BY <3>1, <3>2, <3>3
  <2> DEFINE x == [tickers[t] EXCEPT !.todo = @ \ {i}, !.id = i, !.at = label]
  <2>3. x.rows = tickers[t].rows /\ x.at \notin Written
    BY <2>1 DEF Ticker, Written
  <2>4. tickers' = [tickers EXCEPT ![t] = x]
    BY <2>2
  <2> HIDE DEF x
  <2> QED
    BY <1>3, <1>4, <2>1, <2>3, <2>4, FollowsOn
<1>8. CASE Settle(t) /\ tickers' = [tickers EXCEPT ![t].at = "next"]
  <2> DEFINE x == [tickers[t] EXCEPT !.at = "next"]
  <2>1. tickers[t] # None /\ tickers[t] \in Ticker
    BY <1>1, <1>8 DEF Settle, At
  <2>2. x.rows = tickers[t].rows /\ x.at \notin Written
    BY <2>1 DEF Ticker, Written
  <2>3. tickers' = [tickers EXCEPT ![t] = x]
    BY <1>1, <1>8 DEF TickerTable
  <2> HIDE DEF x
  <2> QED
    BY <1>3, <1>4, <2>1, <2>2, <2>3, FollowsOn
<1>9. CASE Settle(t) /\ Writes(t, "failed")
  <2> DEFINE x == [tickers[t] EXCEPT !.at = "failed", !.left = {"fire", "schedule"}, !.ok = TRUE]
  <2>1. tickers[t] # None /\ tickers[t] \in Ticker /\ tickers[t].at \in Written
    BY <1>1, <1>9 DEF Settle, At, Written
  <2>2. x.rows = tickers[t].rows /\ x.id = tickers[t].id
    BY <2>1 DEF Ticker
  <2>3. tickers' = [tickers EXCEPT ![t] = x]
    BY <1>1, <1>9 DEF Writes, TickerTable
  <2> HIDE DEF x
  <2> QED
    BY <1>3, <1>4, <2>1, <2>2, <2>3, FollowsOn
<1>10. CASE WriteFire(t) \/ WriteFails(t)
  <2>1. PICK write, ok : Served(t, write, ok)
    BY <1>10 DEF WriteFire, WriteFails
  <2> DEFINE both == tickers[t].ok /\ ok
             x == [tickers[t] EXCEPT !.left = @ \ {write}, !.ok = both]
  <2>2. tickers[t] # None /\ tickers[t] \in Ticker
    BY <1>1, <1>10 DEF WriteFire, WriteFails, At
  <2>3. x.rows = tickers[t].rows /\ x.id = tickers[t].id /\ x.at = tickers[t].at
    <3> HIDE DEF both
    <3> QED
      BY <2>2 DEF Ticker
  <2>4. tickers' = [tickers EXCEPT ![t] = x]
    BY <1>1, <2>1 DEF Served, TickerTable
  <2> HIDE DEF x
  <2> QED
    BY <1>3, <1>4, <2>2, <2>3, <2>4, FollowsOn
<1> QED
  BY <1>5, <1>6, <1>7, <1>8, <1>9, <1>10 DEF TickEnds, TickDies, Settle

LEMMA DispatchCovers ==
  ASSUME Base, Covered, NEW t \in Tickers, Dispatch(t)
  PROVE  Covered'
<1>1. /\ tickers[t] # None /\ tickers[t] \in Ticker /\ Sound(tickers[t])
      /\ tickers[t].at = "dispatch" /\ tickers \in TickerTable
      /\ dispatched \in [Ids -> [Slots -> Nat]]
  BY DEF Dispatch, At, Base, TypeOK, TickerTable
<1>2. PICK j, n : j = tickers[t].id /\ n = tickers[t].rows[j].next
  OBVIOUS
<1>3. j \in Ids /\ n \in Slots
  BY <1>1, <1>2 DEF Sound, Working, WasDue
<1>4. dispatched' = [dispatched EXCEPT ![j][n] = @ + 1] /\ schedules' = schedules
  BY <1>2 DEF Dispatch, Copy
<1>5. dispatched'[j][n] # 0
  BY <1>1, <1>3, <1>4
<1>6. Grows
  BY <1>1, <1>3, <1>4 DEF Grows
<1>7. PICK label \in Written : tickers' = [tickers EXCEPT ![t] =
        [tickers[t] EXCEPT !.at = label, !.left = {"fire", "schedule"}, !.ok = TRUE]]
  BY <1>1 DEF Dispatch, Writes, Written, TickerTable
<1> DEFINE x == [tickers[t] EXCEPT !.at = label, !.left = {"fire", "schedule"}, !.ok = TRUE]
<1>8. x.rows = tickers[t].rows /\ x.id = tickers[t].id
  BY <1>1 DEF Ticker
<1>9. tickers' = [tickers EXCEPT ![t] = x]
  BY <1>7
<1> HIDE DEF x
<1>10. \A i \in Ids : Passed(i, schedules[i].next)'
  BY <1>4, <1>6, PassedKept DEF Covered, Passed
<1>11. ASSUME NEW u \in Tickers PROVE Follows(tickers[u])'
  <2>1. CASE u = t
    <3>1. tickers'[u] = x
      BY <1>1, <1>9, <2>1 DEF TickerTable
    <3>2. \A i \in Ids : Passed(i, tickers[t].rows[i].next)
      BY <1>1 DEF Covered, Follows
    <3>3. \A i \in Ids, k \in 1 .. MaxTime : k < x.rows[i].next => dispatched'[i][k] # 0
      BY <1>6, <1>8, <3>2, PassedKept
    <3>4. dispatched'[x.id][x.rows[x.id].next] # 0
      BY <1>2, <1>5, <1>8
    <3> QED
      BY <3>1, <3>3, <3>4 DEF Follows, Passed
  <2>2. CASE u # t
    <3>1. tickers'[u] = tickers[u] /\ Follows(tickers[u]) /\ Sound(tickers[u])
      BY <1>1, <1>9, <2>2 DEF TickerTable, Covered, Base
    <3>2. ASSUME tickers[u] # None
          PROVE  \A i \in Ids, k \in 1 .. MaxTime : k < tickers[u].rows[i].next => dispatched'[i][k] # 0
      BY <1>6, <3>1, <3>2, PassedKept DEF Follows
    <3>3. ASSUME tickers[u] # None, tickers[u].at \in Written
          PROVE  dispatched'[tickers[u].id][tickers[u].rows[tickers[u].id].next] # 0
      <4>1. tickers[u].id \in Ids /\ tickers[u].rows[tickers[u].id].next \in Slots
        BY <3>1, <3>3 DEF Sound, Working, Written, WasDue
      <4> QED
        BY <1>6, <3>1, <3>3, <4>1 DEF Follows, Grows
    <3> QED
      BY <3>1, <3>2, <3>3 DEF Follows, Passed
  <2> QED
    BY <2>1, <2>2
<1> QED
  BY <1>10, <1>11 DEF Covered

LEMMA WriteCovers ==
  ASSUME Base, Covered, NEW t \in Tickers, WriteSchedule(t)
  PROVE  Covered'
<1>1. /\ tickers[t] # None /\ tickers[t] \in Ticker /\ Sound(tickers[t])
      /\ tickers[t].at \in Written /\ tickers \in TickerTable
      /\ Follows(tickers[t]) /\ schedules \in [Ids -> Row]
  BY DEF WriteSchedule, At, Base, TypeOK, TickerTable, Written, Covered
<1>2. dispatched' = dispatched /\ Grows
  BY DEF WriteSchedule, Grows
<1>3. \A u \in Tickers : Follows(tickers[u])'
  <2> DEFINE both == tickers[t].ok /\ TRUE
             x == [tickers[t] EXCEPT !.left = @ \ {"schedule"}, !.ok = both]
  <2>1. x.rows = tickers[t].rows /\ x.id = tickers[t].id /\ x.at = tickers[t].at
    <3> HIDE DEF both
    <3> QED
      BY <1>1 DEF Ticker
  <2>2. tickers' = [tickers EXCEPT ![t] = x]
    BY <1>1 DEF WriteSchedule, Served, TickerTable
  <2> HIDE DEF x
  <2> QED
    BY <1>1, <1>2, <2>1, <2>2, FollowsOn
<1>4. PICK j : j = tickers[t].id
  OBVIOUS
<1>5. j \in Ids /\ Copy(t) \in Row /\ Copy(t) = tickers[t].rows[j] /\ Copy(t).next \in Slots
  BY <1>1, <1>4 DEF Sound, Working, Written, WasDue, Copy, Ticker
<1>6. PICK new \in {Succeeded(schedules[j], Copy(t)), Failed(Copy(t))} :
        schedules' = [schedules EXCEPT ![j] = new]
  BY <1>4 DEF WriteSchedule
<1>7. new.next = Copy(t).next + 1
  <2>1. Succeeded(schedules[j], Copy(t)).next = Occurrence(Copy(t).next)
    BY <1>1, <1>5 DEF Succeeded, Row
  <2>2. Failed(Copy(t)).next = Occurrence(Copy(t).next)
    BY DEF Failed
  <2> QED
    BY <1>6, <2>1, <2>2 DEF Occurrence
<1>8. dispatched[j][Copy(t).next] # 0 /\ Passed(j, Copy(t).next)
  BY <1>1, <1>4, <1>5 DEF Follows
<1>9. Passed(j, Copy(t).next + 1)
  BY <1>5, <1>8 DEF Passed, Slots
<1>10. \A i \in Ids : Passed(i, schedules'[i].next)
  BY <1>1, <1>5, <1>6, <1>7, <1>9 DEF Covered
<1> QED
  BY <1>2, <1>3, <1>10 DEF Covered, Passed

UntilUsers == requests = 0 => Covered

LEMMA CoveredKept == Base /\ UntilUsers /\ [Next]_vars => UntilUsers'
<1> SUFFICES ASSUME Base, requests = 0 => Covered, [Next]_vars, requests' = 0
             PROVE  Covered'
  BY DEF UntilUsers
<1>1. requests \in Nat
  BY DEF Base, TypeOK
<1>2. ASSUME NEW i \in Ids, Pause(i) \/ Resume(i) PROVE FALSE
  BY <1>1, <1>2 DEF Pause, Resume
<1>3. ASSUME UNCHANGED <<schedules, tickers, dispatched, requests>> PROVE Covered'
  BY <1>3 DEF Covered, Follows, Passed
<1>4. CASE Pass \/ UNCHANGED vars
  BY <1>3, <1>4 DEF Pass, vars
<1>5. ASSUME NEW t \in Tickers, TickRead(t) \/ TickNext(t) \/ WriteFails(t) \/ TickDies(t)
      PROVE  Covered'
  <2>1. requests' = requests
    BY <1>5 DEF TickRead, TickNext, Claim, Dispatch, WriteFire, WriteSchedule, Settle,
                TickEnds, WriteFails, TickDies
  <2> QED
    BY <1>5, <2>1, TickCovers, DispatchCovers, WriteCovers DEF TickNext
<1> QED
  BY <1>2, <1>4, <1>5 DEF Next

LEMMA InitCovered == Init => UntilUsers
  BY DEF Init, UntilUsers, Covered, Follows, Passed, Occurrence

\* Without users no occurrence is skipped: whatever fails or dies, a tick moves a
\* schedule past an occurrence only after a run was asked for, exactly once.
THEOREM NeverSkips == Spec => []NoneSkipped
<1>1. Spec => []UntilUsers
  BY InitCovered, CoveredKept, BaseAlways, PTL DEF Spec
<1>2. Base /\ DispatchedOnce /\ UntilUsers => NoneSkipped
  <2> SUFFICES ASSUME Base, DispatchedOnce, Covered, NEW i \in Ids, NEW k \in 1 .. MaxTime,
                      k < schedules[i].next
               PROVE  dispatched[i][k] = 1
    BY DEF NoneSkipped, UntilUsers
  <2>1. dispatched[i][k] # 0
    BY DEF Covered, Passed
  <2>2. dispatched[i][k] \in Nat /\ dispatched[i][k] <= 1
    BY DEF Base, TypeOK, DispatchedOnce, Slots
  <2> QED
    BY <2>1, <2>2
<1> QED
  BY <1>1, <1>2, BaseAlways, DispatchedAtMostOnce, PTL

-----------------------------------------------------------------------------
(* A claimed occurrence is in the hands of a tick *)

\* Tick x works on occurrence k of i; it has claimed it and has yet to move on from it.
On(x, i, k) == x # None /\ x.at \in Working /\ x.id = i /\ x.rows[i].next = k
HeldBy(x, i, k) ==
  x # None /\ x.id = i /\ x.rows[x.id].next = k /\ (x.at = "dispatch" \/ "schedule" \in x.left)

\* Where no user acts and nothing fails, what a tick has read of a schedule is how it is,
\* or the occurrence it shows is claimed; the occurrence it works on is claimed, and until
\* the tick has moved the schedule on, it is the next one.
Hand(x, table, claims) ==
  x # None =>
    /\ \A i \in Ids :
         \/ x.rows[i].next = table[i].next
         \/ x.rows[i].next \in Slots /\ claims[i][x.rows[i].next] # "none"
    /\ x.at \in {"next", "dispatch"} => x.left = {}
    /\ x.ok
    /\ x.at \in Working =>
         /\ claims[x.id][x.rows[x.id].next] # "none"
         /\ x.at = "dispatch" \/ "fire" \in x.left => claims[x.id][x.rows[x.id].next] = "claimed"
         /\ x.at = "dispatch" \/ "schedule" \in x.left => table[x.id].next = x.rows[x.id].next

Alone ==
  \A i \in Ids, k \in Slots, t, u \in Tickers :
    On(tickers[t], i, k) /\ On(tickers[u], i, k) => t = u

AllHeld ==
  \A i \in Ids, k \in Slots :
    k >= schedules[i].next /\ fires[i][k] # "none" => \E t \in Tickers : HeldBy(tickers[t], i, k)

InHand ==
  /\ \A t \in Tickers : Hand(tickers[t], schedules, fires)
  /\ Alone
  /\ AllHeld

\* A step of one tick: it takes nobody's claim away, moves on only the schedule it works
\* on, and works on what it worked on or has just claimed.
LEMMA HandStep ==
  ASSUME Base, Base', InHand, NEW t \in Tickers, NEW x, tickers' = [tickers EXCEPT ![t] = x],
         \A i \in Ids, k \in Slots :
           /\ fires[i][k] # "none" => fires'[i][k] # "none"
           /\ fires[i][k] = "claimed" => fires'[i][k] = "claimed" \/ On(tickers[t], i, k)
           /\ On(x, i, k) => On(tickers[t], i, k) \/ fires[i][k] = "none"
           /\ fires'[i][k] # "none" =>
                \/ k < schedules'[i].next
                \/ HeldBy(x, i, k)
                \/ fires[i][k] # "none" /\ ~ HeldBy(tickers[t], i, k),
         \A i \in Ids :
           \/ schedules'[i].next = schedules[i].next
           \/ /\ schedules[i].next \in Slots
              /\ schedules'[i].next = schedules[i].next + 1
              /\ On(tickers[t], i, schedules[i].next),
         Hand(x, schedules', fires')
  PROVE  InHand'
<1>1. /\ tickers \in TickerTable /\ schedules \in [Ids -> Row] /\ schedules' \in [Ids -> Row]
      /\ \A u \in Tickers : Sound(tickers[u])
      /\ tickers'[t] = x /\ \A u \in Tickers : u # t => tickers'[u] = tickers[u]
  BY DEF Base, TypeOK, TickerTable
<1>2. ASSUME NEW u \in Tickers, NEW i \in Ids, NEW k \in Slots, On(tickers[u], i, k)
      PROVE  fires[i][k] # "none"
  BY <1>2 DEF InHand, Hand, On
<1>3. ASSUME NEW u \in Tickers PROVE Hand(tickers'[u], schedules', fires')
  <2>1. CASE u = t
    BY <1>1, <2>1
  <2>2. CASE u # t /\ tickers[u] # None
    <3> DEFINE y == tickers[u]
    <3>1. tickers'[u] = y /\ y # None /\ Hand(y, schedules, fires) /\ Sound(y)
      BY <1>1, <2>2 DEF InHand
    <3>2. ASSUME NEW i \in Ids
          PROVE  \/ y.rows[i].next = schedules'[i].next
                 \/ y.rows[i].next \in Slots /\ fires'[i][y.rows[i].next] # "none"
      <4>1. CASE y.rows[i].next = schedules[i].next /\ schedules'[i].next # schedules[i].next
        BY <1>2, <4>1
      <4>2. CASE y.rows[i].next # schedules[i].next
        <5>1. y.rows[i].next \in Slots /\ fires[i][y.rows[i].next] # "none"
          BY <3>1, <4>2 DEF Hand
        <5> QED
          BY <5>1
      <4> QED
        BY <4>1, <4>2
    <3>3. y.ok /\ (y.at \in {"next", "dispatch"} => y.left = {})
      BY <3>1 DEF Hand
    <3>4. ASSUME y.at \in Working
          PROVE  /\ fires'[y.id][y.rows[y.id].next] # "none"
                 /\ y.at = "dispatch" \/ "fire" \in y.left => fires'[y.id][y.rows[y.id].next] = "claimed"
                 /\ y.at = "dispatch" \/ "schedule" \in y.left => schedules'[y.id].next = y.rows[y.id].next
      <4>1. PICK i, k : i = y.id /\ k = y.rows[y.id].next
        OBVIOUS
      <4>2. i \in Ids /\ k \in Slots
        BY <3>1, <3>4, <4>1 DEF Sound, WasDue
      <4>3. On(tickers[u], i, k)
        BY <2>2, <3>4, <4>1 DEF On
      <4>4. ~ On(tickers[t], i, k)
        BY <2>2, <4>2, <4>3 DEF InHand, Alone
      <4>5. /\ fires[i][k] # "none"
            /\ y.at = "dispatch" \/ "fire" \in y.left => fires[i][k] = "claimed"
            /\ y.at = "dispatch" \/ "schedule" \in y.left => schedules[i].next = k
        BY <3>1, <3>4, <4>1 DEF Hand
      <4> HIDE DEF y
      <4> QED
        BY <4>1, <4>2, <4>4, <4>5
    <3> HIDE DEF y
    <3> QED
      BY <3>1, <3>2, <3>3, <3>4 DEF Hand
  <2>3. CASE u # t /\ tickers[u] = None
    BY <1>1, <2>3 DEF Hand
  <2> QED
    BY <2>1, <2>2, <2>3
<1>4. Alone'
  <2> SUFFICES ASSUME NEW i \in Ids, NEW k \in Slots, NEW u \in Tickers, NEW v \in Tickers,
                      On(tickers'[u], i, k), On(tickers'[v], i, k), u # v
               PROVE  FALSE
    BY DEF Alone, On
  <2>1. PICK w \in Tickers : w # t /\ On(tickers[w], i, k)
    BY <1>1
  <2>2. ~ On(tickers[t], i, k) /\ fires[i][k] # "none"
    BY <1>2, <2>1 DEF InHand, Alone
  <2>3. ~ On(x, i, k)
    BY <2>2
  <2>4. u # t /\ v # t
    BY <1>1, <2>3
  <2> QED
    BY <1>1, <2>4 DEF InHand, Alone
<1>5. AllHeld'
  <2> SUFFICES ASSUME NEW i \in Ids, NEW k \in Slots, k >= schedules'[i].next, fires'[i][k] # "none"
               PROVE  \E u \in Tickers : HeldBy(tickers'[u], i, k)
    BY DEF AllHeld, HeldBy
  <2>1. CASE HeldBy(x, i, k)
    BY <1>1, <2>1
  <2>2. CASE ~ HeldBy(x, i, k)
    <3>1. ~ (k < schedules'[i].next) /\ k >= schedules[i].next
      <4>1. /\ k \in Nat /\ schedules[i].next \in Nat /\ schedules'[i].next \in Nat
            /\ k >= schedules'[i].next
        BY <1>1 DEF Slots, Row, Times
      <4>2. schedules'[i].next = schedules[i].next \/ schedules'[i].next = schedules[i].next + 1
        OBVIOUS
      <4> QED
        BY ONLY <4>1, <4>2
    <3>2. fires[i][k] # "none" /\ ~ HeldBy(tickers[t], i, k)
      BY <2>2, <3>1
    <3>3. PICK u \in Tickers : HeldBy(tickers[u], i, k)
      BY <3>1, <3>2 DEF InHand, AllHeld
    <3> QED
      BY <1>1, <3>2, <3>3
  <2> QED
    BY <2>1, <2>2
<1> QED
  BY <1>3, <1>4, <1>5 DEF InHand

\* A step that leaves both tables alone and after which the tick has what it had.
LEMMA SameHand ==
  ASSUME Base, Base', InHand, NEW t \in Tickers, NEW x, tickers' = [tickers EXCEPT ![t] = x],
         schedules' = schedules, fires' = fires,
         \A i \in Ids, k \in Slots : On(x, i, k) => On(tickers[t], i, k),
         \A i \in Ids, k \in Slots : HeldBy(tickers[t], i, k) => HeldBy(x, i, k),
         Hand(x, schedules, fires)
  PROVE  InHand'
<1>1. \A i \in Ids, k \in Slots :
        fires'[i][k] # "none" => HeldBy(x, i, k) \/ (fires[i][k] # "none" /\ ~ HeldBy(tickers[t], i, k))
  OBVIOUS
<1> QED
  BY <1>1, HandStep

LEMMA ReadInHand ==
  ASSUME Base, Base', InHand, NEW t \in Tickers, TickRead(t) \/ TickEnds(t)
  PROVE  InHand'
<1>1. schedules' = schedules /\ fires' = fires
  BY DEF TickRead, TickEnds
<1>2. CASE TickRead(t)
  <2>1. PICK D \in Selections : tickers' = [tickers EXCEPT
          ![t] = [at |-> "next", rows |-> schedules, todo |-> D, id |-> None,
                  left |-> {}, ok |-> TRUE]]
    BY <1>2 DEF TickRead
  <2> DEFINE x == [at |-> "next", rows |-> schedules, todo |-> D, id |-> None,
                   left |-> {}, ok |-> TRUE]
  <2>2. x.at = "next" /\ x.rows = schedules /\ x.left = {} /\ x.ok
    OBVIOUS
  <2>3. tickers[t] = None
    BY <1>2 DEF TickRead
  <2>4. tickers' = [tickers EXCEPT ![t] = x]
    BY <2>1
  <2> HIDE DEF x
  <2> QED
    BY <1>1, <2>2, <2>3, <2>4, SameHand DEF Hand, On, HeldBy, Working
<1>3. CASE TickEnds(t)
  <2>1. tickers' = [tickers EXCEPT ![t] = None] /\ tickers[t] # None /\ tickers[t].at = "next"
    BY <1>3 DEF TickEnds, At
  <2>2. tickers[t].left = {}
    BY <2>1 DEF InHand, Hand
  <2> QED
    BY <1>1, <2>1, <2>2, SameHand DEF Hand, On, HeldBy
<1> QED
  BY <1>2, <1>3

LEMMA ClaimInHand ==
  ASSUME Base, Base', InHand, NEW t \in Tickers, Claim(t)
  PROVE  InHand'
<1>1. /\ tickers[t] # None /\ tickers[t] \in Ticker /\ Sound(tickers[t]) /\ tickers[t].at = "next"
      /\ fires \in [Ids -> [Slots -> {"none", "claimed", "run_created", "failed"}]]
      /\ schedules' = schedules /\ Hand(tickers[t], schedules, fires)
  BY DEF Claim, At, Base, TypeOK, InHand
<1>2. PICK i \in tickers[t].todo :
        LET k == tickers[t].rows[i].next
            rest == [tickers[t] EXCEPT !.todo = @ \ {i}, !.id = i]
        IN IF Claimable(i, k)
           THEN /\ fires' = [fires EXCEPT ![i][k] = "claimed"]
                /\ tickers' = [tickers EXCEPT ![t] = [rest EXCEPT !.at = "dispatch"]]
           ELSE /\ tickers' = [tickers EXCEPT ![t] = rest]
                /\ UNCHANGED fires
  BY Zenon DEF Claim
<1>3. PICK k : k = tickers[t].rows[i].next
  OBVIOUS
<1>4. i \in Ids /\ k \in Slots
  BY <1>1, <1>3 DEF Sound, Ticker, WasDue
<1>5. tickers[t].left = {} /\ \A j, n : ~ On(tickers[t], j, n) /\ ~ HeldBy(tickers[t], j, n)
  BY <1>1 DEF Hand, On, HeldBy, Working
<1>6. CASE Claimable(i, k)
  <2> DEFINE x == [[tickers[t] EXCEPT !.todo = @ \ {i}, !.id = i] EXCEPT !.at = "dispatch"]
  <2>1. fires' = [fires EXCEPT ![i][k] = "claimed"] /\ tickers' = [tickers EXCEPT ![t] = x]
    BY <1>2, <1>3, <1>6
  <2>2. /\ x # None /\ x.at = "dispatch" /\ x.id = i /\ x.rows = tickers[t].rows /\ x.left = {}
        /\ x.ok = tickers[t].ok
    <3>1. x \in Ticker
      BY <1>1, <1>4 DEF Ticker
    <3>2. x.at = "dispatch" /\ x.id = i /\ x.rows = tickers[t].rows /\ x.left = tickers[t].left
      BY <1>1 DEF Ticker
    <3>3. x.ok = tickers[t].ok
      BY <1>1 DEF Ticker
    <3> QED
      BY <1>5, <3>1, <3>2, <3>3, NoneIsNoTicker
  <2>3. /\ fires[i][k] = "none" /\ fires'[i][k] = "claimed"
        /\ \A j \in Ids, n \in Slots : j # i \/ n # k => fires'[j][n] = fires[j][n]
    BY <1>1, <1>4, <1>6, <2>1 DEF Claimable
  <2>4. schedules[i].next = k
    BY <1>1, <1>3, <1>4, <2>3 DEF Hand
  <2>5. \A j, n : (On(x, j, n) => j = i /\ n = k) /\ HeldBy(x, i, k)
    <3> HIDE DEF x
    <3> QED
      BY <1>3, <2>2 DEF On, HeldBy
  <2>6. Hand(x, schedules, fires')
    <3>1. ASSUME NEW j \in Ids
          PROVE  \/ x.rows[j].next = schedules[j].next
                 \/ x.rows[j].next \in Slots /\ fires'[j][x.rows[j].next] # "none"
      <4> HIDE DEF x
      <4> QED
        BY <1>1, <2>2, <2>3 DEF Hand
    <3>2. x.ok
      BY <1>1, <2>2 DEF Hand
    <3> HIDE DEF x
    <3> QED
      BY <1>3, <2>2, <2>3, <2>4, <3>1, <3>2 DEF Hand
  <2>7. \A j \in Ids, n \in Slots :
          /\ fires[j][n] # "none" => fires'[j][n] # "none"
          /\ fires[j][n] = "claimed" => fires'[j][n] = "claimed" \/ On(tickers[t], j, n)
          /\ On(x, j, n) => On(tickers[t], j, n) \/ fires[j][n] = "none"
          /\ fires'[j][n] # "none" =>
               \/ n < schedules'[j].next
               \/ HeldBy(x, j, n)
               \/ fires[j][n] # "none" /\ ~ HeldBy(tickers[t], j, n)
    <3> HIDE DEF x
    <3> QED
      BY <1>5, <2>3, <2>5
  <2>8. Hand(x, schedules', fires')
    BY <1>1, <2>6
  <2> HIDE DEF x
  <2> QED
    BY <1>1, <2>1, <2>7, <2>8, HandStep
<1>7. CASE ~ Claimable(i, k)
  <2> DEFINE x == [tickers[t] EXCEPT !.todo = @ \ {i}, !.id = i]
  <2>1. fires' = fires /\ tickers' = [tickers EXCEPT ![t] = x]
    BY <1>2, <1>3, <1>7
  <2>2. /\ x # None /\ x.at = "next" /\ x.rows = tickers[t].rows /\ x.left = {}
    <3>1. x \in Ticker
      BY <1>1, <1>4 DEF Ticker
    <3>2. x.at = "next" /\ x.rows = tickers[t].rows /\ x.left = tickers[t].left
      BY <1>1 DEF Ticker
    <3> QED
      BY <1>5, <3>1, <3>2, NoneIsNoTicker
  <2>3. Hand(x, schedules, fires)
    <3>1. x.ok = tickers[t].ok
      BY <1>1 DEF Ticker
    <3> HIDE DEF x
    <3> QED
      BY <1>1, <2>2, <3>1 DEF Hand, Working
  <2> HIDE DEF x
  <2> QED
    BY <1>1, <1>5, <2>1, <2>2, <2>3, SameHand DEF On, Working
<1> QED
  BY <1>6, <1>7

LEMMA DispatchInHand ==
  ASSUME Base, Base', InHand, NEW t \in Tickers, Dispatch(t)
  PROVE  InHand'
<1>1. /\ tickers[t] # None /\ tickers[t] \in Ticker /\ tickers[t].at = "dispatch"
      /\ tickers \in TickerTable /\ schedules' = schedules /\ fires' = fires
      /\ Hand(tickers[t], schedules, fires)
  BY DEF Dispatch, At, Base, TypeOK, TickerTable, InHand
<1>2. PICK label \in {"created", "failed"} : tickers' = [tickers EXCEPT ![t] =
        [tickers[t] EXCEPT !.at = label, !.left = {"fire", "schedule"}, !.ok = TRUE]]
  BY <1>1 DEF Dispatch, Writes, TickerTable
<1> DEFINE x == [tickers[t] EXCEPT !.at = label, !.left = {"fire", "schedule"}, !.ok = TRUE]
<1>3. x \in Ticker
  BY <1>1 DEF Ticker
<1>4. /\ x.at = label /\ x.left = {"fire", "schedule"} /\ x.ok
      /\ x.rows = tickers[t].rows /\ x.id = tickers[t].id
  BY <1>1 DEF Ticker
<1>5. tickers' = [tickers EXCEPT ![t] = x]
  BY <1>2
<1> HIDE DEF x
<1>6. Hand(x, schedules, fires)
  BY <1>1, <1>4 DEF Hand, Working
<1>7. \A i \in Ids, k \in Slots :
        (On(x, i, k) => On(tickers[t], i, k)) /\ (HeldBy(tickers[t], i, k) => HeldBy(x, i, k))
  BY <1>1, <1>3, <1>4, NoneIsNoTicker DEF On, HeldBy, Working
<1> QED
  BY <1>1, <1>5, <1>6, <1>7, SameHand

LEMMA SettleInHand ==
  ASSUME Base, Base', InHand, NEW t \in Tickers, Settle(t)
  PROVE  InHand'
<1>1. /\ tickers[t] # None /\ tickers[t] \in Ticker /\ tickers[t].at \in {"created", "failed"}
      /\ tickers \in TickerTable /\ schedules' = schedules /\ fires' = fires
      /\ Hand(tickers[t], schedules, fires) /\ tickers[t].left = {}
  BY DEF Settle, At, Base, TypeOK, TickerTable, InHand
<1> DEFINE x == [tickers[t] EXCEPT !.at = "next"]
<1>2. x.at = "next" /\ x.left = {} /\ x.ok = tickers[t].ok /\ x.rows = tickers[t].rows
  BY <1>1 DEF Ticker
<1>3. tickers[t].ok
  BY <1>1 DEF Hand
<1>4. tickers' = [tickers EXCEPT ![t] = x]
  BY <1>1, <1>3 DEF Settle, TickerTable
<1> HIDE DEF x
<1>5. Hand(x, schedules, fires)
  BY <1>1, <1>2 DEF Hand, Working
<1>6. \A i \in Ids, k \in Slots : ~ On(x, i, k) /\ ~ HeldBy(tickers[t], i, k)
  BY <1>1, <1>2 DEF On, HeldBy, Working
<1> QED
  BY <1>1, <1>4, <1>5, <1>6, SameHand

LEMMA ServedRow ==
  ASSUME NEW t \in Tickers, tickers[t] \in Ticker, tickers \in TickerTable,
         NEW write, Served(t, write, TRUE), tickers[t].ok
  PROVE  \E x \in Ticker :
           /\ tickers' = [tickers EXCEPT ![t] = x]
           /\ x.at = tickers[t].at /\ x.rows = tickers[t].rows /\ x.id = tickers[t].id
           /\ x.left = tickers[t].left \ {write} /\ x.ok
<1> DEFINE x == [tickers[t] EXCEPT !.left = tickers[t].left \ {write}, !.ok = TRUE]
<1>1. x \in Ticker /\ x.at = tickers[t].at /\ x.rows = tickers[t].rows /\ x.id = tickers[t].id
      /\ x.left = tickers[t].left \ {write} /\ x.ok
  BY DEF Ticker
<1>2. (tickers[t].ok /\ TRUE) = TRUE
  OBVIOUS
<1>3. tickers' = [tickers EXCEPT ![t] = x]
  BY <1>2 DEF Served, TickerTable
<1> HIDE DEF x
<1> QED
  BY <1>1, <1>3

LEMMA WriteFireInHand ==
  ASSUME Base, Base', InHand, NEW t \in Tickers, WriteFire(t)
  PROVE  InHand'
<1>1. /\ tickers[t] # None /\ tickers[t] \in Ticker /\ tickers[t].at \in {"created", "failed"}
      /\ tickers \in TickerTable /\ schedules' = schedules /\ Sound(tickers[t])
      /\ Hand(tickers[t], schedules, fires) /\ "fire" \in tickers[t].left
      /\ fires \in [Ids -> [Slots -> {"none", "claimed", "run_created", "failed"}]]
  BY DEF WriteFire, Served, At, Base, TypeOK, TickerTable, InHand
<1>2. PICK i, k : i = tickers[t].id /\ k = tickers[t].rows[i].next
  OBVIOUS
<1>3. i \in Ids /\ k \in Slots
  BY <1>1, <1>2 DEF Sound, Working, WasDue
<1>4. fires[i][k] = "claimed" /\ tickers[t].ok
  BY <1>1, <1>2 DEF Hand, Working
<1>5. Served(t, "fire", TRUE)
      /\ \E new \in {"run_created", "failed"} : fires' = [fires EXCEPT ![i][k] = new]
  BY <1>2, <1>4 DEF WriteFire, Copy
<1>6. PICK x \in Ticker :
        /\ tickers' = [tickers EXCEPT ![t] = x]
        /\ x.at = tickers[t].at /\ x.rows = tickers[t].rows /\ x.id = tickers[t].id
        /\ x.left = tickers[t].left \ {"fire"} /\ x.ok
  BY <1>1, <1>4, <1>5, ServedRow
<1>7. PICK new \in {"run_created", "failed"} : fires' = [fires EXCEPT ![i][k] = new]
  BY <1>5
<1>8. /\ fires'[i][k] = new
      /\ \A j \in Ids, n \in Slots : j # i \/ n # k => fires'[j][n] = fires[j][n]
  BY <1>1, <1>3, <1>7
<1>9. \A j \in Ids, n \in Slots :
        /\ On(x, j, n) <=> On(tickers[t], j, n)
        /\ HeldBy(x, j, n) <=> HeldBy(tickers[t], j, n)
  BY <1>1, <1>6, NoneIsNoTicker DEF On, HeldBy
<1>10. On(tickers[t], i, k)
  BY <1>1, <1>2 DEF On, Working
<1>11. Hand(x, schedules', fires')
  <2>1. ASSUME NEW j \in Ids
        PROVE  \/ x.rows[j].next = schedules'[j].next
               \/ x.rows[j].next \in Slots /\ fires'[j][x.rows[j].next] # "none"
    BY <1>1, <1>6, <1>8 DEF Hand
  <2>2. x.at \in Working => x.id = i /\ x.rows[x.id].next = k /\ fires'[i][k] # "none" /\ x.at # "dispatch"
    BY <1>1, <1>2, <1>6, <1>8
  <2>3. "schedule" \in x.left => schedules'[i].next = k
    BY <1>1, <1>2, <1>6 DEF Hand, Working
  <2> QED
    BY <1>1, <1>6, <2>1, <2>2, <2>3 DEF Hand
<1>12. \A j \in Ids, n \in Slots :
         /\ fires[j][n] # "none" => fires'[j][n] # "none"
         /\ fires[j][n] = "claimed" => fires'[j][n] = "claimed" \/ On(tickers[t], j, n)
         /\ On(x, j, n) => On(tickers[t], j, n) \/ fires[j][n] = "none"
         /\ fires'[j][n] # "none" =>
              \/ n < schedules'[j].next
              \/ HeldBy(x, j, n)
              \/ fires[j][n] # "none" /\ ~ HeldBy(tickers[t], j, n)
  BY <1>4, <1>8, <1>9, <1>10
<1> QED
  BY <1>1, <1>6, <1>11, <1>12, HandStep

LEMMA WriteScheduleInHand ==
  ASSUME Base, Base', InHand, NEW t \in Tickers, WriteSchedule(t)
  PROVE  InHand'
<1>1. /\ tickers[t] # None /\ tickers[t] \in Ticker /\ tickers[t].at \in {"created", "failed"}
      /\ tickers \in TickerTable /\ fires' = fires /\ Sound(tickers[t])
      /\ Hand(tickers[t], schedules, fires) /\ "schedule" \in tickers[t].left
      /\ schedules \in [Ids -> Row] /\ tickers[t].ok
  <2>1. tickers \in TickerTable /\ schedules \in [Ids -> Row] /\ Sound(tickers[t])
    BY DEF Base, TypeOK, TickerTable
  <2>2. tickers[t] # None /\ tickers[t].at \in {"created", "failed"} /\ fires' = fires
        /\ "schedule" \in tickers[t].left
    BY DEF WriteSchedule, Served, At
  <2>3. tickers[t] \in Ticker
    BY <2>1, <2>2 DEF TickerTable
  <2>4. Hand(tickers[t], schedules, fires)
    BY DEF InHand
  <2>5. tickers[t].ok
    BY <2>2, <2>4 DEF Hand
  <2> QED BY <2>1, <2>2, <2>3, <2>4, <2>5
<1>2. PICK i, k : i = tickers[t].id /\ k = tickers[t].rows[i].next
  OBVIOUS
<1>3. i \in Ids /\ k \in Slots /\ Copy(t) \in Row /\ Copy(t).next = k
  BY <1>1, <1>2 DEF Sound, Working, WasDue, Copy, Ticker
<1>4. schedules[i].next = k /\ fires[i][k] # "none"
  BY <1>1, <1>2 DEF Hand, Working
<1>5. PICK new \in {Succeeded(schedules[i], Copy(t)), Failed(Copy(t))} :
        schedules' = [schedules EXCEPT ![i] = new]
  BY <1>2 DEF WriteSchedule
<1>6. new.next = k + 1
  <2>1. Succeeded(schedules[i], Copy(t)).next = Occurrence(Copy(t).next)
    BY <1>1, <1>3 DEF Succeeded, Row
  <2>2. Failed(Copy(t)).next = Occurrence(Copy(t).next)
    BY DEF Failed
  <2> QED
    BY <1>3, <1>5, <2>1, <2>2 DEF Occurrence
<1>7. schedules'[i].next = k + 1 /\ \A j \in Ids : j # i => schedules'[j] = schedules[j]
  BY <1>1, <1>3, <1>5, <1>6
<1>8. PICK x \in Ticker :
        /\ tickers' = [tickers EXCEPT ![t] = x]
        /\ x.at = tickers[t].at /\ x.rows = tickers[t].rows /\ x.id = tickers[t].id
        /\ x.left = tickers[t].left \ {"schedule"} /\ x.ok
  BY <1>1, ServedRow DEF WriteSchedule
<1>9. On(tickers[t], i, k) /\ \A j, n : HeldBy(tickers[t], j, n) => j = i /\ n = k
  BY <1>1, <1>2 DEF On, HeldBy, Working
<1>10. \A j \in Ids, n \in Slots : On(x, j, n) => On(tickers[t], j, n)
  BY <1>1, <1>8 DEF On
<1>11. Hand(x, schedules', fires')
  <2>1. ASSUME NEW j \in Ids
        PROVE  \/ x.rows[j].next = schedules'[j].next
               \/ x.rows[j].next \in Slots /\ fires'[j][x.rows[j].next] # "none"
    <3>1. CASE j = i
      BY <1>1, <1>2, <1>3, <1>4, <1>8, <3>1
    <3>2. CASE j # i
      BY <1>1, <1>7, <1>8, <3>2 DEF Hand
    <3> QED
      BY <3>1, <3>2
  <2>2. x.at \in Working =>
          /\ fires'[x.id][x.rows[x.id].next] # "none"
          /\ "fire" \in x.left => fires'[x.id][x.rows[x.id].next] = "claimed"
    BY <1>1, <1>8 DEF Hand
  <2>3. x.at \notin {"next", "dispatch"} /\ "schedule" \notin x.left
    BY <1>1, <1>8
  <2> QED
    BY <1>8, <2>1, <2>2, <2>3 DEF Hand
<1>12. k < k + 1
  BY <1>3 DEF Slots
<1>13. \A j \in Ids, n \in Slots :
         /\ fires[j][n] # "none" => fires'[j][n] # "none"
         /\ fires[j][n] = "claimed" => fires'[j][n] = "claimed" \/ On(tickers[t], j, n)
         /\ On(x, j, n) => On(tickers[t], j, n) \/ fires[j][n] = "none"
         /\ fires'[j][n] # "none" =>
              \/ n < schedules'[j].next
              \/ HeldBy(x, j, n)
              \/ fires[j][n] # "none" /\ ~ HeldBy(tickers[t], j, n)
  BY <1>1, <1>7, <1>9, <1>10, <1>12
<1>14. \A j \in Ids :
         \/ schedules'[j].next = schedules[j].next
         \/ /\ schedules[j].next \in Slots
            /\ schedules'[j].next = schedules[j].next + 1
            /\ On(tickers[t], j, schedules[j].next)
  BY <1>3, <1>4, <1>7, <1>9
<1> QED
  BY <1>8, <1>11, <1>13, <1>14, HandStep

UntilFaults == requests = 0 /\ faults = 0 => InHand

LEMMA InHandKept == Base /\ Base' /\ UntilFaults /\ [Next]_vars => UntilFaults'
<1> SUFFICES ASSUME Base, Base', requests = 0 /\ faults = 0 => InHand, [Next]_vars,
                    requests' = 0, faults' = 0
             PROVE  InHand'
  BY DEF UntilFaults
<1>1. requests \in Nat /\ faults \in Nat
  BY DEF Base, TypeOK
<1>2. ASSUME NEW i \in Ids, Pause(i) \/ Resume(i) PROVE FALSE
  BY <1>1, <1>2 DEF Pause, Resume
<1>3. ASSUME schedules' = schedules, fires' = fires, tickers' = tickers, requests' = requests, faults' = faults
      PROVE  InHand'
  <2>1. InHand
    BY <1>3
  <2>2. \A t \in Tickers : Hand(tickers'[t], schedules', fires')
    BY <1>3, <2>1 DEF InHand
  <2>3. Alone' /\ AllHeld'
    BY <1>3, <2>1 DEF InHand, Alone, AllHeld, On, HeldBy
  <2> QED
    BY <2>2, <2>3 DEF InHand
<1>4. CASE Pass \/ UNCHANGED vars
  <2>1. schedules' = schedules /\ fires' = fires /\ tickers' = tickers /\ requests' = requests /\ faults' = faults
    BY <1>4 DEF Pass, vars
  <2> QED
    BY <1>3, <2>1
<1>5. ASSUME NEW t \in Tickers, WriteFails(t) \/ TickDies(t) PROVE FALSE
  <2>1. faults' = faults + 1
    BY <1>5 DEF WriteFails, TickDies
  <2> QED
    BY ONLY <1>1, <2>1, faults' = 0
<1>6. ASSUME NEW t \in Tickers, TickRead(t) \/ TickNext(t) PROVE InHand'
  <2>1. requests' = requests /\ faults' = faults
    BY <1>6 DEF TickRead, TickNext, Claim, Dispatch, WriteFire, WriteSchedule, Settle, TickEnds
  <2> QED
    BY <1>6, <2>1, ReadInHand, ClaimInHand, DispatchInHand, WriteFireInHand,
       WriteScheduleInHand, SettleInHand DEF TickNext
<1> QED
  BY <1>2, <1>4, <1>5, <1>6 DEF Next

\* Where no user acts and nothing fails, an occurrence that is claimed and not passed is in
\* the hands of a tick, for any number of ticks that overlap in any way: the claim, and not
\* the row a tick has read, decides who moves the schedule on.
THEOREM ClaimsAreHeld == Spec => []ClaimedIsHeld
<1>1. Init => UntilFaults
  BY DEF Init, UntilFaults, InHand, Hand, Alone, AllHeld, On
<1>2. UntilFaults => ClaimedIsHeld
  <2> SUFFICES ASSUME InHand, NEW i \in Ids, NEW k \in Slots,
                      k >= schedules[i].next, fires[i][k] # "none"
               PROVE  \E t \in Tickers : Holds(t, i, k)
    BY DEF UntilFaults, ClaimedIsHeld
  <2>1. PICK t \in Tickers : HeldBy(tickers[t], i, k)
    BY DEF InHand, AllHeld
  <2> QED
    BY <2>1 DEF HeldBy, Holds, Copy
<1>3. Spec => []UntilFaults
  BY <1>1, InHandKept, BaseAlways, PTL DEF Spec
<1> QED
  BY <1>2, <1>3, PTL

\* All of SchedulesSafe at once, for any number of workflows, schedules and planners.
THEOREM SchedulesAreSafe == Spec => []SchedulesSafe
BY TypeCorrect, PausesAfterFailures, DispatchedAtMostOnce, NeverSkips, PTL DEF SchedulesSafe

-----------------------------------------------------------------------------
(* AssistantDrafts *)

Drafted == {"audit", "undo", "end"}

\* No plan has two drafts.
OneDraftPerPlan == \A c, d \in drafts : creates[c].plan = creates[d].plan => c = d

\* What a request to create has inserted when it comes to a call.
CreateFits(c) ==
  /\ c \in drafts => creates[c].at \in Drafted /\ c \in versions
  /\ creates[c].at \in {"link", "draft"} => c \in versions
  /\ creates[c].at = "audit" => c \in drafts
  /\ creates[c].at \in {"idle", "look", "workflow"} => workflows[c] = "none"

\* Without slips only a request that inserted no draft comes to its undoing.
Clean(c) ==
  /\ creates[c].at = "undo" => c \notin drafts
  /\ creates[c].at = "end" /\ workflows[c] # "none" => c \in drafts
  /\ creates[c].answer # NoDraft => creates[c].answer \in drafts

\* The draft that a request to start works on is there as long as its workflow is.
StartFits(s) ==
  starts[s].at \notin {"idle", "end"} =>
    /\ starts[s].draft \in Creates /\ creates[starts[s].draft].at \in Drafted
    /\ workflows[starts[s].draft] # "none" => starts[s].draft \in drafts

DraftsInv ==
  /\ DraftsTypeOK
  /\ OneDraftPerPlan
  /\ planRuns \subseteq drafts
  /\ \A c \in Creates : CreateFits(c)
  /\ \A s \in Starts : StartFits(s)
  /\ slips = 0 => \A c \in Creates : Clean(c)

\* A step of a request to create that changes no table.
LEMMA CreateMoves ==
  ASSUME DraftsInv, NEW c \in Creates, creates' = [creates EXCEPT ![c] = creates'[c]],
         creates'[c] \in Create, kept' \in BOOLEAN, UNCHANGED <<draftTables, starts, refusals>>,
         creates'[c].plan = creates[c].plan \/ creates[c].at = "idle",
         creates[c].at \in Drafted => creates'[c].at \in Drafted,
         slips' = slips \/ Slip,
         CreateFits(c)', slips' = 0 => Clean(c)'
  PROVE  DraftsInv'
<1>1. creates \in [Creates -> Create] /\ creates' \in [Creates -> Create]
      /\ slips \in 0 .. MaxSlips
  BY DEF DraftsInv, DraftsTypeOK
<1>2. slips' \in 0 .. MaxSlips /\ (slips' = 0 => slips = 0)
  BY <1>1, DraftBounds DEF Slip
<1>3. DraftsTypeOK' /\ (planRuns \subseteq drafts)'
  BY <1>1, <1>2 DEF DraftsInv, DraftsTypeOK, draftTables
<1>4. ASSUME NEW d \in drafts PROVE d \in Creates /\ creates'[d].plan = creates[d].plan
  BY <1>1, <1>4 DEF DraftsInv, DraftsTypeOK, CreateFits, Drafted
<1>5. OneDraftPerPlan'
  BY <1>4 DEF DraftsInv, OneDraftPerPlan, draftTables
<1>6. ASSUME NEW d \in Creates, d # c
      PROVE  creates'[d] = creates[d] /\ CreateFits(d)' /\ (slips' = 0 => Clean(d)')
  BY <1>1, <1>2, <1>6 DEF DraftsInv, CreateFits, Clean, draftTables
<1>7. ASSUME NEW s \in Starts PROVE StartFits(s)'
  <2>1. StartFits(s)
    BY DEF DraftsInv
  <2> QED BY <1>1, <1>6, <2>1 DEF StartFits, draftTables
<1> QED BY <1>3, <1>5, <1>6, <1>7 DEF DraftsInv

\* A step of a request to start, which removes nothing.
LEMMA StartMoves ==
  ASSUME DraftsInv, NEW s \in Starts, starts' = [starts EXCEPT ![s] = starts'[s]],
         starts'[s] \in Start, UNCHANGED <<kept, versions, drafts, creates, refusals>>,
         planRuns \subseteq planRuns', planRuns' \subseteq drafts,
         workflows' \in [Creates -> {"none", "draft", "active"}],
         \A d \in Creates : workflows'[d] = "none" <=> workflows[d] = "none",
         slips' = slips \/ Slip,
         StartFits(s)'
  PROVE  DraftsInv'
<1>1. starts' \in [Starts -> Start] /\ slips \in 0 .. MaxSlips
  BY DEF DraftsInv, DraftsTypeOK
<1>2. slips' \in 0 .. MaxSlips /\ (slips' = 0 => slips = 0)
  BY <1>1, DraftBounds DEF Slip
<1>3. DraftsTypeOK'
  BY <1>1, <1>2 DEF DraftsInv, DraftsTypeOK
<1>4. OneDraftPerPlan' /\ (planRuns \subseteq drafts)'
  BY DEF DraftsInv, OneDraftPerPlan
<1>5. ASSUME NEW d \in Creates PROVE CreateFits(d)' /\ (slips' = 0 => Clean(d)')
  BY <1>2 DEF DraftsInv, CreateFits, Clean
<1>6. ASSUME NEW z \in Starts PROVE StartFits(z)'
  <2>1. CASE z = s
    BY <2>1
  <2>2. CASE z # s
    <3>1. starts'[z] = starts[z] /\ StartFits(z)
      BY <1>1, <2>2 DEF DraftsInv, DraftsTypeOK
    <3> QED BY <3>1 DEF StartFits
  <2> QED BY <2>1, <2>2
<1> QED BY <1>3, <1>4, <1>5, <1>6 DEF DraftsInv

\* A request that is at its next call.
LEMMA CreatingMoves ==
  ASSUME DraftsInv, NEW c \in Creates, NEW label, Creating(c, label),
         label \in {"idle", "look", "workflow", "version", "link", "draft", "audit", "undo", "end"}
  PROVE  /\ creates' = [creates EXCEPT ![c] = creates'[c]]
         /\ creates'[c] \in Create /\ creates'[c].at = label
         /\ creates'[c].plan = creates[c].plan /\ creates'[c].answer = creates[c].answer
         /\ \A d \in Creates \ {c} : creates'[d] = creates[d]
<1>1. creates \in [Creates -> Create]
  BY DEF DraftsInv, DraftsTypeOK
<1> QED BY <1>1 DEF Creating, Create

LEMMA StartingMoves ==
  ASSUME DraftsInv, NEW s \in Starts, NEW label, Starting(s, label),
         label \in {"idle", "activate", "audit", "deactivate", "run", "end"}
  PROVE  /\ starts' = [starts EXCEPT ![s] = starts'[s]]
         /\ starts'[s] \in Start /\ starts'[s].at = label /\ starts'[s].draft = starts[s].draft
<1>1. starts \in [Starts -> Start]
  BY DEF DraftsInv, DraftsTypeOK
<1> QED BY <1>1 DEF Starting, Start

\* A call that failed and had no effect.
LEMMA CallFails ==
  ASSUME DraftsInv, NEW c \in Creates, NEW label \in {"end", "undo"},
         creates[c].at \notin {"idle", "undo", "end"},
         UNCHANGED <<kept, draftTables, starts, refusals>>, Creating(c, label), Slip
  PROVE  DraftsInv'
<1>1. /\ creates' = [creates EXCEPT ![c] = creates'[c]]
      /\ creates'[c] \in Create /\ creates'[c].at = label
      /\ creates'[c].plan = creates[c].plan
  BY CreatingMoves
<1>2. slips' # 0 /\ kept \in BOOLEAN
  BY DEF DraftsInv, DraftsTypeOK, Slip
<1>3. CreateFits(c)
  BY DEF DraftsInv
<1>4. CreateFits(c)'
  BY <1>1, <1>3 DEF CreateFits, Drafted, draftTables
<1> QED BY <1>1, <1>2, <1>4, CreateMoves DEF Drafted

LEMMA ReviewKeeps ==
  ASSUME DraftsInv, NEW c \in Creates, Review(c)
  PROVE  DraftsInv'
<1>1. creates[c].at = "idle" /\ UNCHANGED <<kept, draftTables, starts, slips, refusals>>
  BY DEF Review
<1>2. PICK p \in Plans : creates' = [creates EXCEPT ![c].at = "look", ![c].plan = p]
  BY DEF Review
<1>3. /\ creates' = [creates EXCEPT ![c] = creates'[c]]
      /\ creates'[c] \in Create /\ creates'[c].at = "look"
      /\ creates'[c].answer = creates[c].answer /\ kept \in BOOLEAN
  BY <1>2 DEF DraftsInv, DraftsTypeOK, Create
<1>4. CreateFits(c)
  BY DEF DraftsInv
<1>5. CreateFits(c)' /\ (slips' = 0 => Clean(c)')
  BY <1>1, <1>3, <1>4 DEF DraftsInv, CreateFits, Clean, Drafted, draftTables
<1> QED BY <1>1, <1>3, <1>5, CreateMoves DEF Drafted

LEMMA LookForDraftKeeps ==
  ASSUME DraftsInv, NEW c \in Creates, LookForDraft(c)
  PROVE  DraftsInv'
<1>1. creates[c].at = "look" /\ UNCHANGED <<kept, draftTables, starts, refusals>>
      /\ CreateFits(c) /\ (slips = 0 => Clean(c)) /\ kept \in BOOLEAN
  BY DEF LookForDraft, DraftsInv, DraftsTypeOK
<1>2. CASE UNCHANGED slips /\ \E d \in DraftsOf(creates[c].plan) :
             creates' = [creates EXCEPT ![c].at = "end", ![c].answer = d]
  <2>1. PICK d \in DraftsOf(creates[c].plan) :
          creates' = [creates EXCEPT ![c].at = "end", ![c].answer = d]
    BY <1>2
  <2>2. d \in drafts /\ d \in Creates
    BY DEF DraftsOf, DraftsInv, DraftsTypeOK
  <2>3. /\ creates' = [creates EXCEPT ![c] = creates'[c]]
        /\ creates'[c] \in Create /\ creates'[c].at = "end" /\ creates'[c].answer = d
        /\ creates'[c].plan = creates[c].plan
    BY <2>1, <2>2 DEF DraftsInv, DraftsTypeOK, Create
  <2>4. CreateFits(c)' /\ (slips' = 0 => Clean(c)')
    BY <1>1, <2>2, <2>3 DEF CreateFits, Clean, Drafted, draftTables
  <2> QED BY <1>1, <1>2, <2>3, <2>4, CreateMoves DEF Drafted
<1>3. CASE Creating(c, "workflow") /\ UNCHANGED slips
  <2>1. /\ creates' = [creates EXCEPT ![c] = creates'[c]]
        /\ creates'[c] \in Create /\ creates'[c].at = "workflow"
        /\ creates'[c].plan = creates[c].plan /\ creates'[c].answer = creates[c].answer
    BY <1>3, CreatingMoves
  <2>2. CreateFits(c)' /\ (slips' = 0 => Clean(c)')
    BY <1>1, <1>3, <2>1 DEF CreateFits, Clean, Drafted, draftTables
  <2> QED BY <1>1, <1>3, <2>1, <2>2, CreateMoves DEF Drafted
<1>4. CASE Creating(c, "end") /\ Slip
  BY <1>1, <1>4, CallFails
<1> QED BY <1>2, <1>3, <1>4 DEF LookForDraft

\* A call that took effect on one table or several: what changed, of the rows of c only.
LEMMA CallWorks ==
  ASSUME DraftsInv, NEW c \in Creates, creates' = [creates EXCEPT ![c] = creates'[c]],
         creates'[c] \in Create, UNCHANGED <<kept, starts, refusals, planRuns>>,
         creates'[c].plan = creates[c].plan, creates'[c].answer = creates[c].answer,
         creates[c].at \in Drafted => creates'[c].at \in Drafted,
         slips' = slips \/ Slip,
         workflows' \in [Creates -> {"none", "draft", "active"}],
         \A d \in Creates \ {c} : workflows'[d] = workflows[d],
         versions' \ {c} = versions \ {c}, drafts' \ {c} = drafts \ {c},
         versions' \subseteq Creates, drafts' \subseteq Creates,
         planRuns \subseteq drafts',
         c \in drafts' \ drafts => DraftsOf(creates[c].plan) = {},
         creates[c].at \in Drafted => workflows'[c] = "none",
         c \in drafts => creates[c].at = "undo",
         CreateFits(c)', slips' = 0 => Clean(c)'
  PROVE  DraftsInv'
<1>1. creates \in [Creates -> Create] /\ creates' \in [Creates -> Create]
      /\ slips \in 0 .. MaxSlips
  BY DEF DraftsInv, DraftsTypeOK
<1>2. slips' \in 0 .. MaxSlips /\ (slips' = 0 => slips = 0)
  BY <1>1, DraftBounds DEF Slip
<1>3. DraftsTypeOK' /\ (planRuns \subseteq drafts)'
  BY <1>1, <1>2 DEF DraftsInv, DraftsTypeOK
<1>4. \A d \in Creates : creates'[d].plan = creates[d].plan
  BY <1>1
<1>5. OneDraftPerPlan'
  <2> SUFFICES ASSUME NEW d \in drafts', NEW e \in drafts', creates[d].plan = creates[e].plan
               PROVE  d = e
    BY <1>3, <1>4 DEF OneDraftPerPlan, DraftsTypeOK
  <2>1. CASE d \in drafts /\ e \in drafts
    BY <2>1 DEF DraftsInv, OneDraftPerPlan
  <2>2. CASE d \notin drafts
    BY <2>2 DEF DraftsOf
  <2>3. CASE e \notin drafts
    BY <2>3 DEF DraftsOf
  <2> QED BY <2>1, <2>2, <2>3
<1>6. ASSUME NEW d \in Creates, d # c
      PROVE  CreateFits(d)' /\ (slips' = 0 => Clean(d)')
  <2>1. CreateFits(d)'
    BY <1>1, <1>6 DEF DraftsInv, CreateFits
  <2>2. ASSUME slips' = 0 PROVE Clean(d)'
    <3>1. Clean(d) /\ Clean(c)
      BY <1>2, <2>2 DEF DraftsInv
    <3>2. creates[d].answer = c => c \in drafts'
      <4>1. creates[d].answer = c /\ c # NoDraft => c \in drafts /\ creates[c].at = "undo"
        BY <3>1 DEF Clean
      <4>2. creates[c].at = "undo" => c \notin drafts
        BY <3>1 DEF Clean
      <4> QED BY <4>1, <4>2, DraftBounds
    <3> QED BY <1>1, <1>6, <3>1, <3>2 DEF Clean
  <2> QED BY <2>1, <2>2
<1>7. ASSUME NEW s \in Starts PROVE StartFits(s)'
  <2>1. StartFits(s) /\ starts' = starts
    BY DEF DraftsInv
  <2>2. CASE starts[s].draft = c
    BY <1>1, <2>1, <2>2 DEF StartFits
  <2>3. CASE starts[s].draft # c
    BY <1>1, <2>1, <2>3 DEF StartFits
  <2> QED BY <2>2, <2>3
<1> QED BY <1>3, <1>5, <1>6, <1>7 DEF DraftsInv

LEMMA InsertWorkflowKeeps ==
  ASSUME DraftsInv, NEW c \in Creates, InsertWorkflow(c)
  PROVE  DraftsInv'
<1>1. /\ creates[c].at = "workflow" /\ UNCHANGED <<kept, starts, refusals>>
      /\ workflows \in [Creates -> {"none", "draft", "active"}]
      /\ CreateFits(c) /\ (slips = 0 => Clean(c))
  BY DEF InsertWorkflow, DraftsInv, DraftsTypeOK
<1>2. CASE /\ workflows' = [workflows EXCEPT ![c] = "draft"] /\ UNCHANGED <<versions, drafts, planRuns>>
           /\ (Creating(c, "version") /\ UNCHANGED slips) \/ (Creating(c, "end") /\ Slip)
  <2>1. /\ creates' = [creates EXCEPT ![c] = creates'[c]]
        /\ creates'[c] \in Create /\ creates'[c].at \in {"version", "end"}
        /\ creates'[c].plan = creates[c].plan /\ creates'[c].answer = creates[c].answer
        /\ creates'[c].at = "version" \/ Slip
    BY <1>2, CreatingMoves
  <2>2. c \notin drafts
    BY <1>1 DEF CreateFits, Drafted
  <2>3. CreateFits(c)'
    BY <1>2, <2>1, <2>2 DEF CreateFits
  <2>4. slips' = 0 => Clean(c)'
    <3>1. ASSUME Slip PROVE slips' # 0
      BY <3>1 DEF DraftsInv, DraftsTypeOK, Slip
    <3>2. slips' = 0 => slips = 0 /\ creates'[c].at = "version"
      BY <1>2, <2>1, <3>1
    <3> QED BY <1>1, <1>2, <2>1, <3>2 DEF Clean
  <2>5. /\ workflows' \in [Creates -> {"none", "draft", "active"}]
        /\ \A d \in Creates \ {c} : workflows'[d] = workflows[d]
    BY <1>1, <1>2
  <2>6. drafts \subseteq Creates /\ versions \subseteq Creates /\ planRuns \subseteq drafts
    BY DEF DraftsInv, DraftsTypeOK
  <2> QED BY <1>1, <1>2, <2>1, <2>2, <2>3, <2>4, <2>5, <2>6, CallWorks DEF Drafted
<1>3. CASE UNCHANGED draftTables /\ Creating(c, "end") /\ Slip
  BY <1>1, <1>3, CallFails
<1> QED BY <1>2, <1>3 DEF InsertWorkflow, CallOf

LEMMA InsertVersionKeeps ==
  ASSUME DraftsInv, NEW c \in Creates, InsertVersion(c)
  PROVE  DraftsInv'
<1>1. /\ creates[c].at = "version" /\ UNCHANGED <<kept, starts, refusals>>
      /\ workflows \in [Creates -> {"none", "draft", "active"}]
      /\ CreateFits(c) /\ (slips = 0 => Clean(c))
  BY DEF InsertVersion, DraftsInv, DraftsTypeOK
<1>2. CASE /\ versions' = versions \cup {c} /\ UNCHANGED <<workflows, drafts, planRuns>>
           /\ (Creating(c, "link") /\ UNCHANGED slips) \/ (Creating(c, "undo") /\ Slip)
  <2>1. /\ creates' = [creates EXCEPT ![c] = creates'[c]]
        /\ creates'[c] \in Create /\ creates'[c].at \in {"link", "undo"}
        /\ creates'[c].plan = creates[c].plan /\ creates'[c].answer = creates[c].answer
    BY <1>2, CreatingMoves
  <2>2. c \notin drafts
    BY <1>1 DEF CreateFits, Drafted
  <2>3. CreateFits(c)'
    BY <1>2, <2>1, <2>2 DEF CreateFits
  <2>4. slips' = 0 => Clean(c)'
    <3>1. slips' = 0 => slips = 0
      BY <1>2 DEF DraftsInv, DraftsTypeOK, Slip
    <3> QED BY <1>1, <1>2, <2>1, <2>2, <3>1 DEF Clean
  <2>5. /\ drafts \subseteq Creates /\ versions' \subseteq Creates /\ planRuns \subseteq drafts
        /\ versions' \ {c} = versions \ {c}
    BY <1>2 DEF DraftsInv, DraftsTypeOK
  <2> QED BY <1>1, <1>2, <2>1, <2>2, <2>3, <2>4, <2>5, CallWorks DEF Drafted
<1>3. CASE UNCHANGED draftTables /\ Creating(c, "undo") /\ Slip
  BY <1>1, <1>3, CallFails
<1> QED BY <1>2, <1>3 DEF InsertVersion, CallOf

LEMMA LinkVersionKeeps ==
  ASSUME DraftsInv, NEW c \in Creates, LinkVersion(c)
  PROVE  DraftsInv'
<1>1. /\ creates[c].at = "link" /\ UNCHANGED <<kept, draftTables, starts, refusals>>
      /\ CreateFits(c) /\ (slips = 0 => Clean(c)) /\ kept \in BOOLEAN
  BY DEF LinkVersion, CallOf, DraftsInv, DraftsTypeOK
<1>2. CASE Creating(c, "draft") /\ UNCHANGED slips
  <2>1. /\ creates' = [creates EXCEPT ![c] = creates'[c]]
        /\ creates'[c] \in Create /\ creates'[c].at = "draft"
        /\ creates'[c].plan = creates[c].plan /\ creates'[c].answer = creates[c].answer
    BY <1>2, CreatingMoves
  <2>2. CreateFits(c)' /\ (slips' = 0 => Clean(c)')
    BY <1>1, <1>2, <2>1 DEF CreateFits, Clean, Drafted, draftTables
  <2> QED BY <1>1, <1>2, <2>1, <2>2, CreateMoves DEF Drafted
<1>3. CASE Creating(c, "undo") /\ Slip
  BY <1>1, <1>3, CallFails
<1> QED BY <1>2, <1>3 DEF LinkVersion, CallOf

LEMMA InsertDraftKeeps ==
  ASSUME DraftsInv, NEW c \in Creates, InsertDraft(c)
  PROVE  DraftsInv'
<1>1. /\ creates[c].at = "draft" /\ UNCHANGED <<kept, starts, refusals>>
      /\ workflows \in [Creates -> {"none", "draft", "active"}]
      /\ CreateFits(c) /\ (slips = 0 => Clean(c)) /\ kept \in BOOLEAN
  BY DEF InsertDraft, DraftsInv, DraftsTypeOK
<1>2. c \notin drafts /\ c \in versions
  BY <1>1 DEF CreateFits, Drafted
<1>3. CASE /\ drafts' = drafts \cup {c} /\ UNCHANGED <<workflows, versions, planRuns>> /\ Linkable(c)
           /\ (Creating(c, "audit") /\ UNCHANGED slips) \/ (Creating(c, "undo") /\ Slip)
  <2>1. /\ creates' = [creates EXCEPT ![c] = creates'[c]]
        /\ creates'[c] \in Create /\ creates'[c].at \in {"audit", "undo"}
        /\ creates'[c].plan = creates[c].plan /\ creates'[c].answer = creates[c].answer
        /\ creates'[c].at = "audit" \/ Slip
    BY <1>3, CreatingMoves
  <2>2. CreateFits(c)'
    BY <1>2, <1>3, <2>1 DEF CreateFits, Drafted
  <2>3. slips' = 0 => Clean(c)'
    <3>1. ASSUME Slip PROVE slips' # 0
      BY <3>1 DEF DraftsInv, DraftsTypeOK, Slip
    <3>2. slips' = 0 => slips = 0 /\ creates'[c].at = "audit"
      BY <1>3, <2>1, <3>1
    <3> QED BY <1>1, <1>3, <2>1, <3>2 DEF Clean
  <2>4. /\ drafts' \subseteq Creates /\ versions \subseteq Creates /\ planRuns \subseteq drafts'
        /\ drafts' \ {c} = drafts \ {c} /\ DraftsOf(creates[c].plan) = {}
    BY <1>3 DEF DraftsInv, DraftsTypeOK, Linkable
  <2> QED BY <1>1, <1>2, <1>3, <2>1, <2>2, <2>3, <2>4, CallWorks DEF Drafted
<1>4. CASE UNCHANGED draftTables /\ Creating(c, "undo") /\ Slip
  BY <1>1, <1>4, CallFails
<1>5. CASE UNCHANGED draftTables /\ Creating(c, "undo") /\ UNCHANGED slips
  <2>1. /\ creates' = [creates EXCEPT ![c] = creates'[c]]
        /\ creates'[c] \in Create /\ creates'[c].at = "undo"
        /\ creates'[c].plan = creates[c].plan /\ creates'[c].answer = creates[c].answer
    BY <1>5, CreatingMoves
  <2>2. CreateFits(c)' /\ (slips' = 0 => Clean(c)')
    BY <1>1, <1>2, <1>5, <2>1 DEF CreateFits, Clean, Drafted, draftTables
  <2> QED BY <1>1, <1>5, <2>1, <2>2, CreateMoves DEF Drafted
<1> QED BY <1>3, <1>4, <1>5 DEF InsertDraft, CallOf, AfterRefusedDraft

LEMMA AuditDraftKeeps ==
  ASSUME DraftsInv, NEW c \in Creates, AuditDraft(c)
  PROVE  DraftsInv'
<1>1. /\ creates[c].at = "audit" /\ UNCHANGED <<kept, draftTables, starts, refusals>>
      /\ CreateFits(c) /\ (slips = 0 => Clean(c)) /\ kept \in BOOLEAN
  BY DEF AuditDraft, DraftsInv, DraftsTypeOK
<1>2. CASE creates' = [creates EXCEPT ![c].at = "end", ![c].answer = c] /\ UNCHANGED slips
  <2>1. /\ creates' = [creates EXCEPT ![c] = creates'[c]]
        /\ creates'[c] \in Create /\ creates'[c].at = "end" /\ creates'[c].answer = c
        /\ creates'[c].plan = creates[c].plan
    BY <1>2 DEF DraftsInv, DraftsTypeOK, Create
  <2>2. CreateFits(c)' /\ (slips' = 0 => Clean(c)')
    BY <1>1, <1>2, <2>1 DEF CreateFits, Clean, Drafted, draftTables
  <2> QED BY <1>1, <1>2, <2>1, <2>2, CreateMoves DEF Drafted
<1>3. CASE Creating(c, "undo") /\ Slip
  BY <1>1, <1>3, CallFails
<1> QED BY <1>2, <1>3 DEF AuditDraft

LEMMA UndoDraftKeeps ==
  ASSUME DraftsInv, NEW c \in Creates, UndoDraft(c)
  PROVE  DraftsInv'
<1>1. /\ creates[c].at = "undo" /\ UNCHANGED <<kept, starts, refusals>>
      /\ workflows \in [Creates -> {"none", "draft", "active"}]
      /\ CreateFits(c) /\ (slips = 0 => Clean(c)) /\ kept \in BOOLEAN
      /\ Creating(c, "end") /\ (UNCHANGED slips \/ Slip)
  BY DEF UndoDraft, CallOf, DraftsInv, DraftsTypeOK
<1>2. /\ creates' = [creates EXCEPT ![c] = creates'[c]]
      /\ creates'[c] \in Create /\ creates'[c].at = "end"
      /\ creates'[c].plan = creates[c].plan /\ creates'[c].answer = creates[c].answer
  BY <1>1, CreatingMoves
<1>3. slips' = 0 => slips = 0
  BY <1>1 DEF DraftsInv, DraftsTypeOK, Slip
<1>4. CASE /\ workflows' = [w \in Creates |-> IF w \in Undone(c) THEN "none" ELSE workflows[w]]
           /\ versions' = versions \ Undone(c) /\ drafts' = drafts \ Undone(c)
           /\ UNCHANGED planRuns /\ Deletable(c)
  <2>1. /\ workflows' \in [Creates -> {"none", "draft", "active"}] /\ workflows'[c] = "none"
        /\ \A d \in Creates \ {c} : workflows'[d] = workflows[d]
    BY <1>1, <1>4 DEF Undone
  <2>2. /\ c \notin drafts' /\ drafts' \ {c} = drafts \ {c} /\ versions' \ {c} = versions \ {c}
        /\ drafts' \subseteq Creates /\ versions' \subseteq Creates /\ planRuns \subseteq drafts'
    BY <1>4 DEF Undone, Deletable, DraftsInv, DraftsTypeOK
  <2>3. CreateFits(c)'
    BY <1>2, <2>2 DEF CreateFits
  <2>4. slips' = 0 => Clean(c)'
    BY <1>1, <1>2, <1>3, <2>1, <2>2 DEF Clean
  <2> QED BY <1>1, <1>2, <1>4, <2>1, <2>2, <2>3, <2>4, CallWorks DEF Drafted
<1>5. CASE UNCHANGED draftTables /\ (Deletable(c) => Slip)
  <2>1. CreateFits(c)'
    BY <1>1, <1>2, <1>5 DEF CreateFits, Drafted, draftTables
  <2>2. slips' = 0 => Clean(c)'
    <3>1. ASSUME Slip PROVE slips' # 0
      BY <3>1 DEF DraftsInv, DraftsTypeOK, Slip
    <3>2. slips' = 0 => c \in drafts
      BY <1>5, <3>1 DEF Deletable, DraftsInv
    <3> QED BY <1>1, <1>2, <1>3, <1>5, <3>2 DEF Clean, draftTables
  <2> QED BY <1>1, <1>2, <1>5, <2>1, <2>2, CreateMoves DEF Drafted
<1> QED BY <1>4, <1>5 DEF UndoDraft, CallOf

LEMMA CreateDiesKeeps ==
  ASSUME DraftsInv, NEW c \in Creates, CreateDies(c)
  PROVE  DraftsInv'
<1>1. /\ creates[c].at \notin {"idle", "end"} /\ UNCHANGED <<kept, draftTables, starts, refusals>>
      /\ Creating(c, "end") /\ Slip
  BY DEF CreateDies
<1>2. CASE creates[c].at # "undo"
  BY <1>1, <1>2, CallFails
<1>3. CASE creates[c].at = "undo"
  <2>1. /\ creates' = [creates EXCEPT ![c] = creates'[c]]
        /\ creates'[c] \in Create /\ creates'[c].at = "end"
        /\ creates'[c].plan = creates[c].plan
    BY <1>1, CreatingMoves
  <2>2. slips' # 0 /\ kept \in BOOLEAN /\ CreateFits(c)
    BY <1>1 DEF DraftsInv, DraftsTypeOK, Slip
  <2>3. CreateFits(c)'
    BY <1>1, <2>1, <2>2, <1>3 DEF CreateFits, Drafted, draftTables
  <2> QED BY <1>1, <2>1, <2>2, <2>3, CreateMoves DEF Drafted
<1> QED BY <1>2, <1>3

-----------------------------------------------------------------------------
(* Starting a Run from a draft *)

LEMMA LoadDraftKeeps ==
  ASSUME DraftsInv, NEW s \in Starts, LoadDraft(s)
  PROVE  DraftsInv'
<1>1. PICK d \in drafts \cap versions : starts' = [starts EXCEPT ![s] = [at |-> "activate", draft |-> d]]
  BY DEF LoadDraft
<1>2. d \in Creates /\ creates[d].at \in Drafted
  BY DEF DraftsInv, DraftsTypeOK, CreateFits
<1>3. /\ starts' = [starts EXCEPT ![s] = starts'[s]] /\ starts'[s] = [at |-> "activate", draft |-> d]
      /\ starts'[s] \in Start
  BY <1>1, <1>2 DEF DraftsInv, DraftsTypeOK, Start
<1>4. /\ UNCHANGED <<kept, draftTables, creates, slips, refusals>>
      /\ workflows \in [Creates -> {"none", "draft", "active"}] /\ planRuns \subseteq drafts
  BY DEF LoadDraft, DraftsInv, DraftsTypeOK
<1>5. StartFits(s)'
  BY <1>2, <1>3, <1>4 DEF StartFits, draftTables
<1> QED BY <1>3, <1>4, <1>5, StartMoves DEF draftTables

LEMMA ActivateKeeps ==
  ASSUME DraftsInv, NEW s \in Starts, Activate(s)
  PROVE  DraftsInv'
<1> PICK d : d = starts[s].draft
  OBVIOUS
<1>1. /\ starts[s].at = "activate" /\ StartFits(s) /\ planRuns \subseteq drafts
      /\ UNCHANGED <<kept, versions, drafts, planRuns, creates, refusals>>
      /\ workflows \in [Creates -> {"none", "draft", "active"}]
  BY DEF Activate, DraftsInv, DraftsTypeOK
<1>2. d \in Creates
  BY <1>1 DEF StartFits
<1>3. /\ Starting(s, "audit") \/ Starting(s, "end") \/ Starting(s, "run")
      /\ UNCHANGED slips \/ Slip
      /\ \/ workflows[d] = "draft" /\ workflows' = [workflows EXCEPT ![d] = "active"]
         \/ UNCHANGED workflows
  BY DEF Activate
<1>4. /\ starts' = [starts EXCEPT ![s] = starts'[s]]
      /\ starts'[s] \in Start /\ starts'[s].at \in {"audit", "end", "run"}
      /\ starts'[s].draft = starts[s].draft
  BY <1>3, StartingMoves
<1>5. /\ workflows' \in [Creates -> {"none", "draft", "active"}]
      /\ \A c \in Creates : workflows'[c] = "none" <=> workflows[c] = "none"
  BY <1>1, <1>2, <1>3
<1>6. StartFits(s)'
  BY <1>1, <1>4, <1>5 DEF StartFits
<1> QED BY <1>1, <1>3, <1>4, <1>5, <1>6, StartMoves

LEMMA AuditActivationKeeps ==
  ASSUME DraftsInv, NEW s \in Starts, AuditActivation(s)
  PROVE  DraftsInv'
<1>1. /\ starts[s].at = "audit" /\ StartFits(s) /\ planRuns \subseteq drafts
      /\ UNCHANGED <<kept, draftTables, creates, refusals>>
      /\ workflows \in [Creates -> {"none", "draft", "active"}]
      /\ Starting(s, "run") \/ Starting(s, "deactivate")
      /\ UNCHANGED slips \/ Slip
  BY DEF AuditActivation, DraftsInv, DraftsTypeOK
<1>2. /\ starts' = [starts EXCEPT ![s] = starts'[s]]
      /\ starts'[s] \in Start /\ starts'[s].at \in {"run", "deactivate"}
      /\ starts'[s].draft = starts[s].draft
  BY <1>1, StartingMoves
<1>3. StartFits(s)'
  BY <1>1, <1>2 DEF StartFits, draftTables
<1> QED BY <1>1, <1>2, <1>3, StartMoves DEF draftTables

LEMMA DeactivateKeeps ==
  ASSUME DraftsInv, NEW s \in Starts, Deactivate(s)
  PROVE  DraftsInv'
<1> PICK d : d = starts[s].draft
  OBVIOUS
<1>1. /\ starts[s].at = "deactivate" /\ StartFits(s) /\ planRuns \subseteq drafts
      /\ UNCHANGED <<kept, versions, drafts, planRuns, creates, refusals>>
      /\ workflows \in [Creates -> {"none", "draft", "active"}]
      /\ Starting(s, "end") /\ (UNCHANGED slips \/ Slip)
  BY DEF Deactivate, DraftsInv, DraftsTypeOK
<1>2. d \in Creates
  BY <1>1 DEF StartFits
<1>3. \/ workflows' = [workflows EXCEPT ![d] = IF @ = "active" THEN "draft" ELSE @]
      \/ UNCHANGED workflows
  BY DEF Deactivate, Deactivated
<1>4. /\ starts' = [starts EXCEPT ![s] = starts'[s]]
      /\ starts'[s] \in Start /\ starts'[s].at = "end"
  BY <1>1, StartingMoves
<1>5. /\ workflows' \in [Creates -> {"none", "draft", "active"}]
      /\ \A c \in Creates : workflows'[c] = "none" <=> workflows[c] = "none"
  BY <1>1, <1>2, <1>3
<1>6. StartFits(s)'
  BY <1>4 DEF StartFits
<1> QED BY <1>1, <1>4, <1>5, <1>6, StartMoves

\* Only a draft that is there has its Run made.
LEMMA StartPlanRunKeeps ==
  ASSUME DraftsInv, NEW s \in Starts, StartPlanRun(s)
  PROVE  DraftsInv'
<1> PICK d : d = starts[s].draft
  OBVIOUS
<1>1. /\ starts[s].at = "run" /\ StartFits(s) /\ planRuns \subseteq drafts
      /\ UNCHANGED <<kept, workflows, versions, drafts, creates, refusals>>
      /\ workflows \in [Creates -> {"none", "draft", "active"}]
      /\ Starting(s, "end") /\ (UNCHANGED slips \/ Slip)
  BY DEF StartPlanRun, DraftsInv, DraftsTypeOK
<1>2. planRuns' = planRuns \/ (workflows[d] # "none" /\ planRuns' = planRuns \cup {d})
  BY DEF StartPlanRun
<1>3. planRuns \subseteq planRuns' /\ planRuns' \subseteq drafts
  BY <1>1, <1>2 DEF StartFits
<1>4. /\ starts' = [starts EXCEPT ![s] = starts'[s]]
      /\ starts'[s] \in Start /\ starts'[s].at = "end"
  BY <1>1, StartingMoves
<1>5. StartFits(s)'
  BY <1>4 DEF StartFits
<1> QED BY <1>1, <1>3, <1>4, <1>5, StartMoves

LEMMA StartDiesKeeps ==
  ASSUME DraftsInv, NEW s \in Starts, StartDies(s)
  PROVE  DraftsInv'
<1>1. /\ UNCHANGED <<kept, draftTables, creates, refusals>> /\ Starting(s, "end") /\ Slip
      /\ workflows \in [Creates -> {"none", "draft", "active"}] /\ planRuns \subseteq drafts
  BY DEF StartDies, DraftsInv, DraftsTypeOK
<1>2. /\ starts' = [starts EXCEPT ![s] = starts'[s]]
      /\ starts'[s] \in Start /\ starts'[s].at = "end"
  BY <1>1, StartingMoves
<1>3. StartFits(s)'
  BY <1>2 DEF StartFits
<1> QED BY <1>1, <1>2, <1>3, StartMoves DEF draftTables

-----------------------------------------------------------------------------
(* What holds of drafts and their Runs *)

LEMMA DraftsInitInv == DraftsInit => DraftsInv
<1> SUFFICES ASSUME DraftsInit PROVE DraftsInv
  OBVIOUS
<1>1. DraftsTypeOK
  <2>1. creates \in [Creates -> Create] /\ starts \in [Starts -> Start]
    BY DEF DraftsInit, Create, Start
  <2>2. workflows \in [Creates -> {"none", "draft", "active"}] /\ slips \in 0 .. MaxSlips
    BY DraftBounds DEF DraftsInit
  <2>3. kept \in BOOLEAN /\ refusals \in BOOLEAN
    BY DEF DraftsInit
  <2> QED BY <2>1, <2>2, <2>3 DEF DraftsInit, DraftsTypeOK
<1>2. OneDraftPerPlan /\ planRuns \subseteq drafts
  BY DEF DraftsInit, OneDraftPerPlan
<1>3. \A c \in Creates : CreateFits(c) /\ Clean(c)
  BY DEF DraftsInit, CreateFits, Clean
<1>4. \A s \in Starts : StartFits(s)
  BY DEF DraftsInit, StartFits
<1> QED BY <1>1, <1>2, <1>3, <1>4 DEF DraftsInv

LEMMA DraftsRest ==
  ASSUME DraftsInv, kept' \in BOOLEAN, refusals' \in BOOLEAN,
         UNCHANGED <<draftTables, creates, starts, slips>>
  PROVE  DraftsInv'
<1>1. DraftsTypeOK' /\ OneDraftPerPlan' /\ (planRuns \subseteq drafts)'
  BY DEF DraftsInv, DraftsTypeOK, OneDraftPerPlan, draftTables
<1>2. \A c \in Creates : CreateFits(c)' /\ (slips' = 0 => Clean(c)')
  BY DEF DraftsInv, CreateFits, Clean, draftTables
<1>3. \A s \in Starts : StartFits(s)'
  BY DEF DraftsInv, StartFits, draftTables
<1> QED BY <1>1, <1>2, <1>3 DEF DraftsInv

LEMMA DraftsNextInv == DraftsInv /\ [DraftsNext]_draftVars => DraftsInv'
<1> SUFFICES ASSUME DraftsInv, [DraftsNext]_draftVars PROVE DraftsInv'
  OBVIOUS
<1>1. kept \in BOOLEAN /\ refusals \in BOOLEAN
  BY DEF DraftsInv, DraftsTypeOK
<1>2. CASE UNCHANGED draftVars
  BY <1>1, <1>2, DraftsRest DEF draftVars, draftTables
<1>3. CASE DeleteConversation
  <2>1. kept' \in BOOLEAN /\ refusals' \in BOOLEAN
        /\ UNCHANGED <<draftTables, creates, starts, slips>>
    BY <1>1, <1>3 DEF DeleteConversation
  <2> QED BY <2>1, DraftsRest
<1>4. ASSUME NEW c \in Creates, CreateNext(c) PROVE DraftsInv'
  BY <1>4, ReviewKeeps, LookForDraftKeeps, InsertWorkflowKeeps, InsertVersionKeeps,
     LinkVersionKeeps, InsertDraftKeeps, AuditDraftKeeps, UndoDraftKeeps, CreateDiesKeeps
     DEF CreateNext
<1>5. ASSUME NEW s \in Starts, StartNext(s) PROVE DraftsInv'
  BY <1>5, LoadDraftKeeps, ActivateKeeps, AuditActivationKeeps, DeactivateKeeps,
     StartPlanRunKeeps, StartDiesKeeps DEF StartNext
<1> QED BY <1>2, <1>3, <1>4, <1>5 DEF DraftsNext

\* For any requests that overlap, fail half way, die or lose an answer: a plan has at most
\* one Run, a Run keeps its draft and the version that was reviewed, and without such
\* faults a refused request leaves no workflow behind and what was answered is there.
THEOREM DraftsAreSafe == DraftsSpec => []DraftsSafe
<1>1. DraftsInv => DraftsSafe
  <2> SUFFICES ASSUME DraftsInv PROVE DraftsSafe
    OBVIOUS
  <2>1. OneRunPerPlan
    BY DEF DraftsInv, OneDraftPerPlan, OneRunPerPlan
  <2>2. RunsAreReviewed
    BY DEF DraftsInv, DraftsTypeOK, CreateFits, RunsAreReviewed
  <2>3. NoLitter
    BY DEF DraftsInv, Clean, NoLitter
  <2> QED BY <2>1, <2>2, <2>3 DEF DraftsInv, DraftsSafe
<1> QED BY <1>1, DraftsInitInv, DraftsNextInv, PTL DEF DraftsSpec

=============================================================================
