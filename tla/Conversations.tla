--------------------------- MODULE Conversations ---------------------------
(***************************************************************************)
(* Questions, the sessions they belong to and the memories they leave: the  *)
(* question-and-answer endpoints of the dashboard over Sessions and         *)
(* LongTermMemory.  How a run ends is RunLifecycle's subject; here it ends  *)
(* well or not, its turn is saved by the streaming handler and its fact is  *)
(* learnt by the run's goroutine, at the same time.                         *)
(***************************************************************************)
EXTENDS LongTermMemory

CONSTANT MaxRequests  \* bound on saves and deletions
ASSUME RequestAssumption == MaxRequests \in Nat

VARIABLES
  gone,     \* history: per session, its last deletion and what came after it
  requests  \* number of them so far

vars == <<sessionVars, memoryVars, gone, requests>>

\* Who deleted the session, the memories of it that were left, the turns under
\* way then or asked since, the turns summaries had been given by then, and
\* whether a client has saved the session since.
Deletion == [user: Users \cup {None}, kept: SUBSET Turns, later: SUBSET Turns,
             given: SUBSET Turns, saved: BOOLEAN]
NotDeleted == [user |-> None, kept |-> {}, later |-> {}, given |-> {}, saved |-> TRUE]

TypeOK ==
  /\ SessionTypeOK /\ MemoryTypeOK
  /\ gone \in [SessionIds -> Deletion]
  /\ requests \in 0..MaxRequests

Init ==
  /\ SessionInit /\ MemoryInit
  /\ gone = [s \in SessionIds |-> NotDeleted]
  /\ requests = 0

Request == requests < MaxRequests /\ requests' = requests + 1

\* A turn of the session is under way.
UnderWay(t, s) ==
  \/ saving[t].sess = s /\ saving[t].pc \notin {"new", "done"}
  \/ saving[t].sess = s /\ learning[t].pc \notin {"new", "done"}

\* APIQAAsk.
Ask(t, u, s) ==
  /\ saving[t].pc = "new"
  /\ saving' = [saving EXCEPT ![t] = [NewTurn EXCEPT !.pc = "run", !.user = u, !.sess = s]]
  /\ gone' = [gone EXCEPT ![s].later = @ \cup {t}]
  /\ UNCHANGED <<session, muddled, memoryVars, requests>>

\* The run ends: the handler saves the turn if it was done and the client is
\* still there, the goroutine learns from it if it was done.
Answer(t) ==
  /\ saving[t].pc = "run"
  /\ \E pc \in {"ensure", "done"} : saving' = [saving EXCEPT ![t].pc = pc]
  /\ \E pc \in {"begin", "done"} : learning' = [learning EXCEPT ![t].pc = pc]
  /\ UNCHANGED <<session, muddled, row, vector, cleaner, recall, drifted, gone, requests>>

\* APIQASessionSave.
SessionSave(u, s) ==
  /\ Request
  /\ Save(u, s)
  /\ gone' = [gone EXCEPT ![s].saved = TRUE]
  /\ UNCHANGED memoryVars

\* What a deletion finds: the user's memories of the session, and what summary
\* goroutines have read of it.
Memories(u, s) == {m \in Turns : row[m] # None /\ row[m].user = u /\ row[m].sess = s}
Given(s) == UNION {saving[t].seen : t \in {x \in Turns : saving[x].sess = s}}

\* APIQASessionDelete: the session, then its memories, then their vectors; the
\* runs are RunLifecycle's.
SessionDelete(u, s) ==
  /\ Request
  /\ cleaner.pc = "idle"
  /\ DeleteSession(u, s)
  /\ cleaner' = [Resting EXCEPT !.pc = "memories", !.user = u, !.sess = s]
  /\ gone' = [gone EXCEPT ![s] =
                [user |-> u, kept |-> Memories(u, s), given |-> Given(s), saved |-> FALSE,
                 later |-> {t \in Turns : UnderWay(t, s)}]]
  /\ UNCHANGED <<row, vector, learning, recall, drifted>>

\* A failure is logged, and the client told "deleted" all the same.
DeleteBySession ==
  LET u == cleaner.user
      s == cleaner.sess
  IN /\ cleaner.pc = "memories"
     /\ \/ /\ DeleteRows(OfSession(u, s), cleaner)
           /\ gone' = [gone EXCEPT ![s].kept = {}]
        \/ cleaner' = Resting /\ UNCHANGED <<row, drifted, gone>>
     /\ UNCHANGED <<sessionVars, vector, learning, recall, requests>>

\* The process stops and starts again.
Asked == {t \in Turns : saving[t].pc # "new"}

Restart ==
  /\ cleaner.pc # "idle" \/ \E t \in Turns, s \in SessionIds : UnderWay(t, s)
  /\ saving' = [t \in Turns |-> IF t \in Asked THEN Done(t)[t] ELSE NewTurn]
  /\ learning' = [t \in Turns |-> IF t \in Asked THEN Learnt ELSE Unlearnt]
  /\ cleaner' = Resting /\ recall' = NoRecall
  /\ drifted' = drifted \cup Held
  /\ muddled' = muddled \cup {s \in Existing : Summarizing(s) # {}}
  /\ UNCHANGED <<session, row, vector, gone, requests>>

Next ==
  \/ \E t \in Turns, u \in Users, s \in SessionIds : Ask(t, u, s)
  \/ \E t \in Turns : Answer(t)
  \/ \E t \in Turns : SaveStep(t) /\ UNCHANGED <<memoryVars, gone, requests>>
  \/ \E t \in Turns : LearnStep(t) /\ UNCHANGED <<sessionVars, gone, requests>>
  \/ \E u \in Users, s \in SessionIds : SessionSave(u, s) \/ SessionDelete(u, s)
  \/ \E u \in Users : DeleteMemories(u) /\ Request /\ UNCHANGED <<sessionVars, gone>>
  \/ DeleteBySession
  \/ DeleteVectors /\ UNCHANGED <<sessionVars, gone, requests>>
  \/ RecallStep /\ UNCHANGED <<sessionVars, gone, requests>>
  \/ Restart

Spec == Init /\ [][Next]_vars

-----------------------------------------------------------------------------
(* Properties.                                                             *)

\* A turn of the user's that was under way when the session was deleted, or was
\* asked since, is past its write to the memories.
Relearnt(s) ==
  \E t \in gone[s].later : saving[t].user = gone[s].user /\ learning[t].pc \in {"sync", "done"}

\* What comes back of a deleted session was not finished when it was deleted.
\* Unless a client has saved it again, the session is there only by a turn of
\* its owner that was under way at the deletion or was asked since, has such
\* turns only, and a summary of them and of what a summary goroutine had read
\* by then.  And until such a turn learns, the deleting user has no memory of
\* the session but those it had at the deletion, and none, active or replaced,
\* once DeleteBySession succeeds: APIQASessionDelete only logs its failure.
DeletedIsForgotten ==
  \A s \in SessionIds :
    /\ session[s] # None /\ ~gone[s].saved =>
         /\ \E t \in gone[s].later : saving[t].user = session[s].owner
         /\ TurnsOf(session[s].turns) \subseteq gone[s].later
         /\ session[s].summary \subseteq gone[s].later \cup gone[s].given
    /\ ~Relearnt(s) => Memories(gone[s].user, s) \subseteq gone[s].kept
=============================================================================
