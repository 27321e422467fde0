--------------------------- MODULE LongTermMemory ---------------------------
(***************************************************************************)
(* Long-term memory.  Rows in MySQL are authoritative: at most one active   *)
(* row per user and fact, chosen by authority in a transaction.  Vectors in *)
(* the semantic store follow after the commit, one request per record, by   *)
(* the goroutine of the run that learnt the fact; nothing orders two of     *)
(* them, or one of them and a deletion.  Recall searches the vectors and    *)
(* then reads the rows.                                                    *)
(*                                                                         *)
(* A turn teaches at most one fact, and its record has the turn's name.     *)
(***************************************************************************)
EXTENDS Sessions

CONSTANTS
  Facts,       \* fact keys
  Contents,    \* what may be remembered under a key
  Authorities  \* of the sources: explicit user, stated by the user, inferred

ASSUME AuthorityAssumption == Authorities \subseteq Nat

VARIABLES
  row,       \* qa_memories
  vector,    \* the status in the payload of each record's point, or "none"
  learning,  \* per turn: the goroutine that writes what it taught
  cleaner,   \* the request that deletes memories, or a session and its memories
  recall,    \* a recall under way
  drifted    \* history: records whose vector was not written in peace

memoryVars == <<row, vector, learning, cleaner, recall, drifted>>

-----------------------------------------------------------------------------
(* Types.                                                                  *)

RowStatus == {"active", "superseded"}
Row == [user: Users, fact: Facts, content: Contents, authority: Authorities,
        status: RowStatus, by: Turns \cup {None}, sess: SessionIds]
ASSUME NoRowAssumption == None \notin Row

Sync == [id: Turns, status: RowStatus]
LearnPc == {"new", "begin", "locked", "sync", "done"}
Learning == [pc: LearnPc, rec: Row \cup {None}, active: Turns \cup {None},
             again: BOOLEAN, todo: Seq(Sync)]
Unlearnt == [pc |-> "new", rec |-> None, active |-> None, again |-> FALSE, todo |-> <<>>]
Learnt == [Unlearnt EXCEPT !.pc = "done"]
CleanPc == {"idle", "memories", "vectors"}
Cleaner == [pc: CleanPc, user: Users \cup {None}, sess: SessionIds \cup {None},
            ids: SUBSET Turns]
Resting == [pc |-> "idle", user |-> None, sess |-> None, ids |-> {}]
Recall == [pc: {"idle", "load", "injected"}, user: Users \cup {None},
           ids: SUBSET Turns, dead: SUBSET Turns]
NoRecall == [pc |-> "idle", user |-> None, ids |-> {}, dead |-> {}]

MemoryTypeOK ==
  /\ row \in [Turns -> Row \cup {None}]
  /\ vector \in [Turns -> RowStatus \cup {"none"}]
  /\ DOMAIN learning = Turns
  /\ \A t \in Turns : learning[t] \in Learning /\ Len(learning[t].todo) <= 2
  /\ cleaner \in Cleaner
  /\ recall \in Recall
  /\ drifted \subseteq Turns

MemoryInit ==
  /\ row = [t \in Turns |-> None]
  /\ vector = [t \in Turns |-> "none"]
  /\ learning = [t \in Turns |-> Unlearnt]
  /\ cleaner = Resting
  /\ recall = NoRecall
  /\ drifted = {}

Active(m) == row[m] # None /\ row[m].status = "active"
ActiveFact(u, f) == {m \in Turns : Active(m) /\ row[m].user = u /\ row[m].fact = f}

\* Records whose vector somebody is still to write or to delete.
ToWrite(t) == {learning[t].todo[i].id : i \in DOMAIN learning[t].todo}
ToDelete == IF cleaner.pc = "vectors" THEN cleaner.ids ELSE {}
Held == ToDelete \cup UNION {ToWrite(t) : t \in Turns}

\* SELECT ... FOR UPDATE keeps the active row to one transaction.
Locked(m) == \E t \in Turns : learning[t].pc = "locked" /\ learning[t].active = m

-----------------------------------------------------------------------------
(* Write.                                                                  *)

\* ExtractMemories: what the model makes of the turn, unless this is the
\* second attempt to write it.
Extracted(t) ==
  IF learning[t].again THEN {learning[t].rec}
  ELSE {[user |-> saving[t].user, sess |-> saving[t].sess, fact |-> f, content |-> c,
         authority |-> a, status |-> "active", by |-> None] :
          f \in Facts, c \in Contents, a \in Authorities}

\* ... and getActiveFact, the transaction's first statement.
GetActiveFact(t) ==
  /\ learning[t].pc = "begin"
  /\ \E rec \in Extracted(t) :
       LET found == ActiveFact(rec.user, rec.fact) IN
       /\ \A m \in found : ~Locked(m)
       /\ \E m \in (IF found = {} THEN {None} ELSE found) :
            learning' = [learning EXCEPT ![t] =
                           [@ EXCEPT !.pc = "locked", !.rec = rec, !.active = m]]
  /\ UNCHANGED <<row, vector, cleaner, recall, drifted>>

Refreshed(old, rec) ==
  IF rec.authority >= old.authority
  THEN [old EXCEPT !.authority = rec.authority, !.sess = rec.sess] ELSE old

\* Broken variant: a source of no authority replaces any other.
RejectedNever(old, rec) == FALSE

Rejected(old, rec) == rec.authority < old.authority

\* What the transaction makes of the rows, and the vectors to write after it.
Outcome(t) ==
  LET rec == learning[t].rec
      a == learning[t].active
  IN CASE a = None ->
            [rows |-> [row EXCEPT ![t] = rec],
             todo |-> <<[id |-> t, status |-> "active"]>>]
       [] a # None /\ row[a].content = rec.content ->
            [rows |-> [row EXCEPT ![a] = Refreshed(@, rec)],
             todo |-> <<[id |-> a, status |-> "active"]>>]
       [] a # None /\ row[a].content # rec.content /\ Rejected(row[a], rec) ->
            [rows |-> [row EXCEPT ![t] = [rec EXCEPT !.status = "superseded", !.by = a]],
             todo |-> <<[id |-> t, status |-> "superseded"]>>]
       [] OTHER ->
            [rows |-> [row EXCEPT ![t] = rec,
                                  ![a] = [@ EXCEPT !.status = "superseded", !.by = t]],
             todo |-> <<[id |-> a, status |-> "superseded"], [id |-> t, status |-> "active"]>>]

\* uniq_user_factkey_active refuses an insertion next to an active row.
Duplicate(t) ==
  /\ learning[t].active = None
  /\ ActiveFact(learning[t].rec.user, learning[t].rec.fact) # {}

\* writeTransaction is repeated once after a duplicate key.
WriteAgain(t) ==
  /\ learning[t].pc = "locked" /\ Duplicate(t)
  /\ learning' = [learning EXCEPT ![t] = IF @.again THEN Learnt
                                         ELSE [@ EXCEPT !.pc = "begin", !.active = None,
                                                             !.again = TRUE]]
  /\ UNCHANGED <<row, vector, cleaner, recall, drifted>>

WriteTransaction(t) ==
  LET after == Outcome(t)
      ids == {after.todo[i].id : i \in DOMAIN after.todo}
  IN /\ learning[t].pc = "locked" /\ ~Duplicate(t)
     /\ row' = after.rows
     /\ \/ /\ learning' = [learning EXCEPT ![t] = [Learnt EXCEPT !.pc = "sync", !.todo = after.todo]]
           /\ drifted' = (drifted \ ids) \cup (ids \cap Held)
        \/ learning' = [learning EXCEPT ![t] = Learnt] /\ drifted' = drifted \cup ids
     /\ UNCHANGED <<vector, cleaner, recall>>

\* Broken variant: a failed write goes on with the vectors.
AfterFailureSync(t) == [Learnt EXCEPT !.pc = "sync", !.todo = Outcome(t).todo]

AfterFailure(t) == Learnt

\* Nothing to remember, a statement or the extraction fails, the row waited for
\* is not given, or the minute is over.
WriteFails(t) ==
  /\ learning[t].pc \in {"begin", "locked"}
  /\ learning' = [learning EXCEPT ![t] = AfterFailure(t)]
  /\ UNCHANGED <<row, vector, cleaner, recall, drifted>>

Continued(l) == IF Len(l.todo) = 1 THEN Learnt ELSE [l EXCEPT !.todo = Tail(@)]

\* syncVector: the replaced record first, then the stored one.  A failure,
\* with the point written or not, is logged.
SyncVector(t) ==
  /\ learning[t].pc = "sync"
  /\ LET next == Head(learning[t].todo)
         written == [vector EXCEPT ![next.id] = next.status]
     IN \/ vector' = written /\ UNCHANGED drifted
        \/ vector' \in {vector, written} /\ drifted' = drifted \cup {next.id}
  /\ learning' = [learning EXCEPT ![t] = Continued(@)]
  /\ UNCHANGED <<row, cleaner, recall>>

-----------------------------------------------------------------------------
(* Deletion.                                                               *)

\* Broken variant: only active memories are looked up.
OfSessionActive(u, s) ==
  {m \in Turns : Active(m) /\ row[m].user = u /\ row[m].sess = s}

OfSession(u, s) == {m \in Turns : row[m] # None /\ row[m].user = u /\ row[m].sess = s}
OfUser(u) == {m \in Turns : row[m] # None /\ row[m].user = u}

\* The rows go in one statement or transaction, then their vectors.
DeleteRows(ids, next) ==
  /\ \A m \in ids : ~Locked(m)
  /\ row' = [m \in Turns |-> IF m \in ids THEN None ELSE row[m]]
  /\ cleaner' = [next EXCEPT !.pc = "vectors", !.ids = ids]
  /\ drifted' = (drifted \ ids) \cup (ids \cap Held)

\* APIQAMemoryDelete and APIQAMemoriesClear.
DeleteMemories(u) ==
  /\ cleaner.pc = "idle"
  /\ \E ids \in {{m} : m \in OfUser(u)} \cup {OfUser(u)} :
       ids # {} /\ DeleteRows(ids, [Resting EXCEPT !.user = u])
  /\ UNCHANGED <<vector, learning, recall>>

\* deleteVectors, which fails or not.
DeleteVectors ==
  /\ cleaner.pc = "vectors"
  /\ \/ /\ vector' = [m \in Turns |-> IF m \in cleaner.ids THEN "none" ELSE vector[m]]
        /\ UNCHANGED drifted
     \/ UNCHANGED vector /\ drifted' = drifted \cup cleaner.ids
  /\ cleaner' = Resting
  /\ UNCHANGED <<row, learning, recall>>

-----------------------------------------------------------------------------
(* Recall of what is current.                                              *)

\* Records that are not, and will not be again, current memories of the user.
Dead(u) == {m \in Turns : learning[m].pc \in {"sync", "done"} /\ ~Active(m)}
           \cup {m \in Turns : row[m] # None /\ row[m].user # u}

\* The search's candidates: points whose payload has the user and says active.
Candidates(u) == {m \in Turns : vector[m] = "active" /\ saving[m].user = u}

Search(u) ==
  /\ recall.pc = "idle" /\ Candidates(u) # {}
  /\ recall' = [pc |-> "load", user |-> u, ids |-> Candidates(u),
                dead |-> Dead(u) \cap Candidates(u)]
  /\ UNCHANGED <<row, vector, learning, cleaner, drifted>>

\* Broken variant: the status of the point is trusted.
RecalledAsFound(u) == {m \in recall.ids : row[m] # None /\ row[m].user = u}

\* loadRecallCandidates, and the filters that follow.
Recalled(u) == {m \in recall.ids : Active(m) /\ row[m].user = u}

LoadRecall ==
  /\ recall.pc = "load"
  /\ LET found == Recalled(recall.user) IN
       recall' = IF found = {} THEN NoRecall
                 ELSE [recall EXCEPT !.pc = "injected", !.ids = found, !.user = None]
  /\ UNCHANGED <<row, vector, learning, cleaner, drifted>>

EndRecall ==
  /\ recall.pc = "injected"
  /\ recall' = NoRecall
  /\ UNCHANGED <<row, vector, learning, cleaner, drifted>>

LearnStep(t) ==
  GetActiveFact(t) \/ WriteAgain(t) \/ WriteTransaction(t) \/ WriteFails(t) \/ SyncVector(t)

RecallStep == (\E u \in Users : Search(u)) \/ LoadRecall \/ EndRecall

-----------------------------------------------------------------------------
(* Properties.                                                             *)

\* A user has one active record of a fact, and a superseded record gave way to
\* one of the same user and fact with no less authority, whatever is
\* refreshed, replaced or rejected meanwhile (writeTransaction).
ReplacedByStronger ==
  /\ \A m, n \in Turns :
       Active(m) /\ Active(n) /\ row[m].user = row[n].user /\ row[m].fact = row[n].fact => m = n
  /\ \A m \in Turns : row[m] # None /\ row[m].status = "superseded" /\ row[row[m].by] # None =>
       LET by == row[row[m].by] IN
         by.user = row[m].user /\ by.fact = row[m].fact /\ by.authority >= row[m].authority

\* No active memory is hidden behind a vector that calls it superseded, in
\* whatever order vectors are written; and a vector says what its row says, or
\* is gone with it, unless a request for it failed or met another one.
VectorsFollowRows ==
  \A m \in Turns :
    /\ vector[m] = "superseded" => ~Active(m)
    /\ m \notin Held \cup drifted =>
         vector[m] = IF row[m] = None THEN "none" ELSE row[m].status

\* What is injected into a prompt was, when the recall began, a memory of the
\* user and neither deleted nor replaced, although vectors may be behind.
RecalledIsLive == recall.pc = "injected" => recall.ids \cap recall.dead = {}
=============================================================================
