------------------------- MODULE ConversationProofs -------------------------
(* Sessions and memories, for any users, session identifiers, facts and       *)
(* authorities and any finite number of turns.                                *)
EXTENDS Conversations, TLAPS, SequenceTheorems, FiniteSetTheorems

-----------------------------------------------------------------------------
(* The inductive invariant.                                                *)

\* What turn t is to write is a record of its user and session.
Lesson(t) ==
  /\ learning[t].rec \in Row
  /\ learning[t].rec.user = saving[t].user /\ learning[t].rec.sess = saving[t].sess
  /\ learning[t].rec.status = "active"

\* Beside the types: a turn that was asked has a user and a session, and
\* teaches nothing before its run is over.
TypeInv ==
  /\ TypeOK
  /\ \A t \in Turns :
       /\ saving[t].pc = "new" => saving[t] = NewTurn
       /\ saving[t].pc # "new" => saving[t].user \in Users /\ saving[t].sess \in SessionIds
       /\ saving[t].pc \in {"new", "run"} <=> learning[t].pc = "new"
       /\ learning[t].again \/ learning[t].pc = "locked" => Lesson(t)
       /\ learning[t].pc # "sync" <=> learning[t].todo = << >>
  /\ cleaner.pc = "memories" => cleaner.user \in Users /\ cleaner.sess \in SessionIds
  /\ recall.pc = "load" => recall.user \in Users

\* Summaries under way are of turns of their user.
OwnerInv ==
  /\ OwnerIsKept
  /\ \A t \in Turns : \A x \in saving[t].seen : saving[x].user = saving[t].user

\* In a session that is not muddled at most one summary is under way, and it
\* is of all turns.
SummaryInv ==
  \A s \in SessionIds \ muddled : session[s] # None =>
    /\ \A t, x \in Summarizing(s) : t = x
    /\ \A t \in Summarizing(s) :
         saving[t].pc = "summarize" => saving[t].seen = TurnsOf(session[s].turns)
    /\ Summarizing(s) = {} => session[s].summary = TurnsOf(session[s].turns)

\* A turn writes its record once; whoever replaced a record has written; an
\* active row that was read stays as it was for the transaction that locked it.
Written(m) == learning[m].pc \in {"sync", "done"}

RowInv ==
  /\ ReplacedByStronger
  /\ \A m \in Turns : ~Written(m) => /\ row[m] = None /\ vector[m] = "none"
                                     /\ m \notin Held \cup drifted
  /\ \A m \in Turns : row[m] # None /\ row[m].status = "superseded" =>
       row[m].by \in Turns /\ Written(row[m].by)
  /\ \A t \in Turns : learning[t].pc = "locked" /\ learning[t].active # None =>
       LET old == row[learning[t].active] IN
         /\ Active(learning[t].active)
         /\ old.user = learning[t].rec.user /\ old.fact = learning[t].rec.fact
  /\ \A t, x \in Turns :
       /\ learning[t].pc = "locked" /\ learning[x].pc = "locked"
       /\ learning[t].active = learning[x].active /\ learning[t].active # None
       => t = x

\* Unless a record drifted, every request for its vector carries what the row
\* says.
Requests(t) == {learning[t].todo[i] : i \in DOMAIN learning[t].todo}

VectorInv ==
  /\ VectorsFollowRows
  /\ \A t \in Turns : \A next \in Requests(t) :
       /\ next.status = "superseded" => ~Active(next.id)
       /\ next.id \notin drifted => row[next.id] # None /\ row[next.id].status = next.status
  /\ \A m \in ToDelete \ drifted : row[m] = None

\* Records that were dead when a recall began do not come back.
RecallInv ==
  /\ recall.pc = "load" =>
       \A m \in recall.dead : Written(m) /\ (Active(m) => row[m].user # recall.user)
  /\ RecalledIsLive

\* The parts of DeletedIsForgotten; and turns that may still bring something
\* of a session back were under way when it was deleted or were asked since.
Renewed(s) ==
  session[s] # None /\ ~gone[s].saved =>
    /\ \E t \in gone[s].later : saving[t].user = session[s].owner
    /\ TurnsOf(session[s].turns) \subseteq gone[s].later
    /\ session[s].summary \subseteq gone[s].later \cup gone[s].given
Unlearned(s) == ~Relearnt(s) => Memories(gone[s].user, s) \subseteq gone[s].kept

Busy(t) == saving[t].pc \notin {"new", "done"} \/ learning[t].pc \in {"begin", "locked"}
Followed(s) ==
  /\ \A t \in gone[s].later : saving[t].pc # "new"
  /\ \A t \in Turns : saving[t].sess = s =>
       /\ Busy(t) => t \in gone[s].later
       /\ ~gone[s].saved => saving[t].seen \subseteq gone[s].later \cup gone[s].given

ForgetInv ==
  /\ \A s \in SessionIds : Renewed(s) /\ Unlearned(s) /\ Followed(s)
  /\ cleaner.pc = "memories" => gone[cleaner.sess].user = cleaner.user

IInv ==
  /\ TypeInv /\ OwnerInv /\ SummaryInv /\ RowInv /\ VectorInv /\ RecallInv /\ ForgetInv
-----------------------------------------------------------------------------
(* Types.                                                                  *)

LEMMA TypeStart == ASSUME Init PROVE TypeInv
<1>1. NewTurn \in Saving
  BY DEF NewTurn, Saving, SavePc
<1>2. Unlearnt \in Learning /\ Len(Unlearnt.todo) <= 2
  BY DEF Unlearnt, Learning, LearnPc
<1>3. SessionTypeOK
  BY <1>1 DEF Init, SessionInit, SessionTypeOK
<1>4. Resting \in Cleaner /\ NoRecall \in Recall
  BY DEF Resting, Cleaner, CleanPc, NoRecall, Recall
<1>5. MemoryTypeOK
  BY <1>2, <1>4 DEF Init, MemoryInit, MemoryTypeOK
<1>6. NotDeleted \in Deletion
  BY DEF NotDeleted, Deletion
<1>7. TypeOK
  BY <1>3, <1>5, <1>6, RequestAssumption DEF Init, TypeOK
<1> QED
  BY <1>7 DEF Init, SessionInit, MemoryInit, NewTurn, Unlearnt, Resting, NoRecall, TypeInv

LEMMA OneOrTwo ==
  ASSUME NEW q, Len(q) \in {1, 2}
  PROVE  q # << >> /\ Len(q) <= 2
<1>1. PICK n : n = Len(q)
  OBVIOUS
<1>2. n # 0 /\ n <= 2
  BY <1>1
<1> QED
  BY <1>1, <1>2, Len(<< >>) = 0

LEMMA TailOfTwo ==
  ASSUME NEW S, NEW q \in Seq(S), q # << >>, Len(q) # 1, Len(q) <= 2
  PROVE  /\ Tail(q) \in Seq(S) /\ Len(Tail(q)) = 1 /\ DOMAIN Tail(q) = {1}
         /\ DOMAIN q = {1, 2} /\ Tail(q)[1] = q[2]
<1>1. PICK n : n = Len(q)
  OBVIOUS
<1>2. n \in Nat \ {0} /\ n # 1 /\ n <= 2
  BY <1>1, EmptySeq
<1>3. n = 2
  BY <1>2
<1>4. Tail(q) \in Seq(S) /\ Len(Tail(q)) = n - 1
  BY <1>1, HeadTailProperties
<1>5. PICK k : k = Len(Tail(q))
  OBVIOUS
<1>6. k = 1
  BY <1>3, <1>4, <1>5
<1>7. DOMAIN Tail(q) = 1..k
  BY <1>4, <1>5, LenProperties
<1>8. DOMAIN q = 1..n
  BY <1>1, LenProperties
<1>9. \A i \in 1..k : Tail(q)[i] = q[i + 1]
  BY <1>5, HeadTailProperties
<1>10. Tail(q)[1] = q[2]
  <2>1. 1 \in 1..k /\ 1 + 1 = 2
    BY <1>6
  <2>2. Tail(q)[1] = q[1 + 1]
    BY <1>9, <2>1, Zenon
  <2> QED
    BY <2>1, <2>2, Zenon
<1>11. 1..k = {1} /\ 1..n = {1, 2}
  BY <1>3, <1>6
<1> QED
  BY <1>4, <1>5, <1>6, <1>7, <1>8, <1>10, <1>11, Zenon

\* A step of the handler or summary of turn t.
LEMMA SaveType ==
  ASSUME TypeInv, NEW t \in Turns, NEW x \in Saving,
         saving[t].pc \notin {"new", "run"}, x.pc \notin {"new", "run"},
         x.user = saving[t].user, x.sess = saving[t].sess,
         saving' = [saving EXCEPT ![t] = x],
         UNCHANGED <<memoryVars, gone, requests>>,
         DOMAIN session' = SessionIds, muddled' \subseteq SessionIds,
         \A s \in SessionIds : session'[s] = None \/ session'[s] \in Session
  PROVE  TypeInv'
<1>1. saving' \in [Turns -> Saving] /\ saving'[t] = x /\ \A m \in Turns \ {t} : saving'[m] = saving[m]
  BY DEF TypeInv, TypeOK, SessionTypeOK
<1>2. TypeOK'
  BY <1>1 DEF TypeInv, TypeOK, SessionTypeOK, MemoryTypeOK, memoryVars
<1>3. ASSUME NEW m \in Turns
      PROVE  /\ saving'[m].user = saving[m].user /\ saving'[m].sess = saving[m].sess
             /\ saving'[m].pc = "new" => saving'[m] = saving[m]
             /\ saving'[m].pc \in {"new", "run"} <=> saving[m].pc \in {"new", "run"}
             /\ saving'[m].pc = "new" <=> saving[m].pc = "new"
             /\ learning'[m] = learning[m]
  <2>1. CASE m = t
    BY <1>1, <2>1 DEF memoryVars
  <2>2. CASE m # t
    BY <1>1, <2>2 DEF memoryVars
  <2> QED
    BY <2>1, <2>2
<1>4. ASSUME NEW m \in Turns
      PROVE  /\ saving'[m].pc = "new" => saving'[m] = NewTurn
             /\ saving'[m].pc # "new" => saving'[m].user \in Users /\ saving'[m].sess \in SessionIds
             /\ saving'[m].pc \in {"new", "run"} <=> learning'[m].pc = "new"
             /\ learning'[m].again \/ learning'[m].pc = "locked" => Lesson(m)'
             /\ learning'[m].pc # "sync" <=> learning'[m].todo = << >>
  BY <1>3 DEF TypeInv, Lesson
<1> QED
  BY <1>2, <1>4 DEF TypeInv, memoryVars

\* A step of the goroutine of turn t.
LEMMA LearnType ==
  ASSUME TypeInv, NEW t \in Turns, NEW x \in Learning, Len(x.todo) <= 2,
         learning[t].pc # "new", x.pc # "new",
         x.again \/ x.pc = "locked" =>
           /\ x.rec \in Row /\ x.rec.status = "active"
           /\ x.rec.user = saving[t].user /\ x.rec.sess = saving[t].sess,
         x.pc # "sync" <=> x.todo = << >>,
         learning' = [learning EXCEPT ![t] = x],
         UNCHANGED <<sessionVars, cleaner, recall, gone, requests>>,
         row' \in [Turns -> Row \cup {None}],
         vector' \in [Turns -> RowStatus \cup {"none"}],
         drifted' \subseteq Turns
  PROVE  TypeInv'
<1>1. /\ DOMAIN learning' = Turns /\ learning'[t] = x
      /\ \A m \in Turns \ {t} : learning'[m] = learning[m]
  BY DEF TypeInv, TypeOK, MemoryTypeOK
<1>2. \A m \in Turns : learning'[m] \in Learning /\ Len(learning'[m].todo) <= 2
  <2>1. SUFFICES ASSUME NEW m \in Turns PROVE learning'[m] \in Learning /\ Len(learning'[m].todo) <= 2
    OBVIOUS
  <2>2. CASE m = t
    BY <1>1, <2>2
  <2>3. CASE m # t
    BY <1>1, <2>3 DEF TypeInv, TypeOK, MemoryTypeOK
  <2> QED
    BY <2>2, <2>3
<1>3. TypeOK'
  BY <1>1, <1>2 DEF TypeInv, TypeOK, SessionTypeOK, MemoryTypeOK, sessionVars
<1>4. ASSUME NEW m \in Turns
      PROVE  /\ saving'[m] = saving[m]
             /\ saving'[m].pc \in {"new", "run"} <=> learning'[m].pc = "new"
             /\ learning'[m].again \/ learning'[m].pc = "locked" => Lesson(m)'
             /\ learning'[m].pc # "sync" <=> learning'[m].todo = << >>
  <2>1. CASE m = t
    BY <1>1, <2>1 DEF TypeInv, Lesson, sessionVars
  <2>2. CASE m # t
    BY <1>1, <2>2 DEF TypeInv, Lesson, sessionVars
  <2> QED
    BY <2>1, <2>2
<1> QED
  BY <1>3, <1>4 DEF TypeInv, sessionVars
-----------------------------------------------------------------------------
(* The four outcomes of a transaction.                                     *)

Rec(t) == learning[t].rec
Old(t) == row[learning[t].active]

Stores(t, todo) ==
  /\ learning[t].active = None /\ ActiveFact(Rec(t).user, Rec(t).fact) = {}
  /\ row' = [row EXCEPT ![t] = Rec(t)]
  /\ todo = <<[id |-> t, status |-> "active"]>>

Refreshes(t, todo) ==
  /\ learning[t].active # None /\ Old(t).content = Rec(t).content
  /\ row' = [row EXCEPT ![learning[t].active] = Refreshed(Old(t), Rec(t))]
  /\ todo = <<[id |-> learning[t].active, status |-> "active"]>>

Rejects(t, todo) ==
  /\ learning[t].active # None /\ Old(t).content # Rec(t).content
  /\ Rec(t).authority < Old(t).authority
  /\ row' = [row EXCEPT ![t] = [Rec(t) EXCEPT !.status = "superseded", !.by = learning[t].active]]
  /\ todo = <<[id |-> t, status |-> "superseded"]>>

Replaces(t, todo) ==
  /\ learning[t].active # None /\ Old(t).content # Rec(t).content
  /\ ~ (Rec(t).authority < Old(t).authority)
  /\ row' = [row EXCEPT ![t] = Rec(t),
                        ![learning[t].active] = [Old(t) EXCEPT !.status = "superseded", !.by = t]]
  /\ todo = <<[id |-> learning[t].active, status |-> "superseded"], [id |-> t, status |-> "active"]>>

Ids(todo) == {todo[i].id : i \in DOMAIN todo}

\* The transaction is committed and its vectors follow, or it is not known to be.
Commits(t, todo) ==
  \/ /\ learning' = [learning EXCEPT ![t] = [Learnt EXCEPT !.pc = "sync", !.todo = todo]]
     /\ drifted' = (drifted \ Ids(todo)) \cup (Ids(todo) \cap Held)
  \/ learning' = [learning EXCEPT ![t] = Learnt] /\ drifted' = drifted \cup Ids(todo)

LEMMA Outcomes ==
  ASSUME TypeInv, RowInv, NEW t \in Turns, WriteTransaction(t)
  PROVE  /\ learning[t].pc = "locked" /\ Lesson(t) /\ row[t] = None
         /\ UNCHANGED <<vector, cleaner, recall>>
         /\ learning[t].active # None =>
              /\ learning[t].active \in Turns \ {t} /\ Old(t) \in Row /\ Old(t).status = "active"
              /\ Old(t).user = Rec(t).user /\ Old(t).fact = Rec(t).fact
         /\ \E todo : /\ Stores(t, todo) \/ Refreshes(t, todo) \/ Rejects(t, todo) \/ Replaces(t, todo)
                      /\ Commits(t, todo)
<1>1. learning[t].pc = "locked" /\ ~ Duplicate(t) /\ UNCHANGED <<vector, cleaner, recall>>
  BY DEF WriteTransaction
<1>2. Lesson(t) /\ learning[t] \in Learning
  BY <1>1 DEF TypeInv, TypeOK, MemoryTypeOK
<1>3. row[t] = None
  BY <1>1 DEF RowInv, Written
<1>4. ASSUME learning[t].active # None
      PROVE  /\ learning[t].active \in Turns \ {t} /\ Old(t) \in Row /\ Old(t).status = "active"
             /\ Old(t).user = Rec(t).user /\ Old(t).fact = Rec(t).fact
  <2>1. learning[t].active \in Turns
    BY <1>2, <1>4 DEF Learning
  <2>2. /\ Active(learning[t].active)
        /\ Old(t).user = Rec(t).user /\ Old(t).fact = Rec(t).fact
    BY <1>1, <1>4 DEF RowInv, Old, Rec
  <2>3. Old(t) # None /\ Old(t).status = "active"
    BY <2>2 DEF Active, Old
  <2>4. Old(t) \in Row
    BY <2>1, <2>3 DEF Old, TypeInv, TypeOK, MemoryTypeOK
  <2> QED
    BY <1>3, <2>1, <2>2, <2>3, <2>4 DEF Old
<1>5. PICK todo : todo = Outcome(t).todo
  OBVIOUS
<1>6. Commits(t, todo)
  BY <1>5 DEF WriteTransaction, Commits, Ids
<1>7. row' = Outcome(t).rows
  BY DEF WriteTransaction
<1>8. CASE learning[t].active = None
  <2>1. Stores(t, todo)
    BY <1>1, <1>5, <1>7, <1>8 DEF Outcome, Stores, Duplicate, Rec
  <2> QED
    BY <1>1, <1>2, <1>3, <1>4, <1>6, <2>1
<1>9. CASE learning[t].active # None /\ Old(t).content = Rec(t).content
  <2>1. Refreshes(t, todo)
    BY <1>5, <1>7, <1>9 DEF Outcome, Refreshes, Rec, Old
  <2> QED
    BY <1>1, <1>2, <1>3, <1>4, <1>6, <2>1
<1>10. CASE /\ learning[t].active # None /\ Old(t).content # Rec(t).content
            /\ Rec(t).authority < Old(t).authority
  <2>1. Rejects(t, todo)
    BY <1>5, <1>7, <1>10 DEF Outcome, Rejects, Rejected, Rec, Old
  <2> QED
    BY <1>1, <1>2, <1>3, <1>4, <1>6, <2>1
<1>11. CASE /\ learning[t].active # None /\ Old(t).content # Rec(t).content
            /\ ~ (Rec(t).authority < Old(t).authority)
  <2>1. Replaces(t, todo)
    BY <1>5, <1>7, <1>11 DEF Outcome, Replaces, Rejected, Rec, Old
  <2> QED
    BY <1>1, <1>2, <1>3, <1>4, <1>6, <2>1
<1> QED
  BY <1>8, <1>9, <1>10, <1>11

\* What the outcomes have in common: which rows may change, and how.
LEMMA OutcomeType ==
  ASSUME TypeInv, RowInv, NEW t \in Turns, WriteTransaction(t), NEW todo,
         Stores(t, todo) \/ Refreshes(t, todo) \/ Rejects(t, todo) \/ Replaces(t, todo)
  PROVE  /\ row' \in [Turns -> Row \cup {None}]
         /\ todo \in Seq(Sync) /\ Len(todo) \in {1, 2} /\ Ids(todo) \subseteq Turns
         /\ \A m \in Turns \ Ids(todo) : row'[m] = row[m]
<1>1. /\ Lesson(t) /\ row \in [Turns -> Row \cup {None}]
      /\ learning[t].active # None => learning[t].active \in Turns \ {t} /\ Old(t) \in Row
  BY Outcomes DEF TypeInv, TypeOK, MemoryTypeOK
<1>2. CASE Stores(t, todo)
  <2>1. Ids(todo) = {t} /\ todo \in Seq(Sync) /\ Len(todo) = 1
    BY <1>2 DEF Stores, Ids, Sync, RowStatus
  <2>2. row' \in [Turns -> Row \cup {None}] /\ \A m \in Turns \ {t} : row'[m] = row[m]
    BY <1>1, <1>2 DEF Stores, Lesson, Rec
  <2> QED
    BY <2>1, <2>2
<1>3. CASE Refreshes(t, todo)
  <2>1. Ids(todo) = {learning[t].active} /\ todo \in Seq(Sync) /\ Len(todo) = 1
    BY <1>1, <1>3 DEF Refreshes, Ids, Sync, RowStatus
  <2>2. Refreshed(Old(t), Rec(t)) \in Row
    BY <1>1, <1>3 DEF Refreshes, Refreshed, Row, Lesson, Rec
  <2>3. /\ row' \in [Turns -> Row \cup {None}]
        /\ \A m \in Turns \ {learning[t].active} : row'[m] = row[m]
    BY <1>1, <1>3, <2>2 DEF Refreshes
  <2> QED
    BY <1>1, <1>3, <2>1, <2>3 DEF Refreshes
<1>4. CASE Rejects(t, todo)
  <2>1. Ids(todo) = {t} /\ todo \in Seq(Sync) /\ Len(todo) = 1
    BY <1>4 DEF Rejects, Ids, Sync, RowStatus
  <2>2. [Rec(t) EXCEPT !.status = "superseded", !.by = learning[t].active] \in Row
    BY <1>1, <1>4 DEF Rejects, Row, RowStatus, Lesson, Rec
  <2>3. row' \in [Turns -> Row \cup {None}] /\ \A m \in Turns \ {t} : row'[m] = row[m]
    BY <1>1, <1>4, <2>2 DEF Rejects
  <2> QED
    BY <2>1, <2>3
<1>5. CASE Replaces(t, todo)
  <2>1. Ids(todo) = {learning[t].active, t} /\ todo \in Seq(Sync) /\ Len(todo) = 2
    BY <1>1, <1>5 DEF Replaces, Ids, Sync, RowStatus
  <2>2. [Old(t) EXCEPT !.status = "superseded", !.by = t] \in Row
    BY <1>1, <1>5 DEF Replaces, Row, RowStatus
  <2>3. /\ row' \in [Turns -> Row \cup {None}]
        /\ \A m \in Turns \ {learning[t].active, t} : row'[m] = row[m]
    BY <1>1, <1>5, <2>2 DEF Replaces, Lesson, Rec
  <2> QED
    BY <1>1, <1>5, <2>1, <2>3 DEF Replaces
<1> QED
  BY <1>2, <1>3, <1>4, <1>5
-----------------------------------------------------------------------------
(* Types of every step.                                                    *)

LEMMA SaveStepType ==
  ASSUME TypeInv, NEW t \in Turns, SaveStep(t), UNCHANGED <<memoryVars, gone, requests>>
  PROVE  TypeInv'
<1>1. /\ saving[t] \in Saving /\ DOMAIN session = SessionIds /\ muddled \subseteq SessionIds
      /\ \A s \in SessionIds : session[s] = None \/ session[s] \in Session
      /\ saving[t].pc # "new" => saving[t].user \in Users /\ saving[t].sess \in SessionIds
  BY DEF TypeInv, TypeOK, SessionTypeOK
<1>2. PICK s : s = saving[t].sess
  OBVIOUS
<1>3. PICK u : u = saving[t].user
  OBVIOUS
<1>4. ASSUME saving' = Done(t), saving[t].pc \notin {"new", "run"},
             DOMAIN session' = SessionIds, muddled' \subseteq SessionIds,
             \A i \in SessionIds : session'[i] = None \/ session'[i] \in Session
      PROVE  TypeInv'
  <2>1. PICK x : x = [saving[t] EXCEPT !.pc = "done", !.seen = {}]
    OBVIOUS
  <2>2. x \in Saving /\ x.pc = "done" /\ x.user = saving[t].user /\ x.sess = saving[t].sess
    BY <1>1, <2>1 DEF Saving, SavePc
  <2>3. saving' = [saving EXCEPT ![t] = x]
    BY <1>4, <2>1 DEF Done
  <2> QED
    BY <1>4, <2>2, <2>3, SaveType
<1>5. CASE EnsureSession(t) \/ AppendMessages(t)
  <2>1. saving[t].pc \in {"ensure", "append"} /\ s \in SessionIds /\ u \in Users
    BY <1>1, <1>2, <1>3, <1>5 DEF EnsureSession, AppendMessages
  <2>2. /\ DOMAIN session' = SessionIds /\ muddled' \subseteq SessionIds
        /\ \A i \in SessionIds : session'[i] = None \/ session'[i] \in Session
    <3>1. CASE session' = session
      BY <1>1, <1>2, <1>5, <2>1, <3>1 DEF EnsureSession, AppendMessages
    <3>2. CASE session' # session /\ EnsureSession(t)
      <4>1. Created(u) \in Session
        BY <2>1 DEF Created, Session
      <4>2. session' = [session EXCEPT ![s] = Created(u)] /\ muddled' \in {muddled, muddled \cup {s}}
        BY <1>2, <1>3, <3>2 DEF EnsureSession
      <4> QED
        BY <1>1, <2>1, <4>1, <4>2
    <3>3. CASE session' # session /\ AppendMessages(t)
      <4>1. /\ Appendable(u, s) /\ session' = [session EXCEPT ![s].turns = Append(@, t)]
            /\ muddled' \in {muddled \ {s}, muddled \cup {s}}
        BY <1>2, <1>3, <3>3 DEF AppendMessages
      <4>2. session[s] \in Session
        BY <1>1, <2>1, <4>1 DEF Appendable, Owns
      <4>3. [session[s] EXCEPT !.turns = Append(session[s].turns, t)] \in Session
        <5>1. Append(session[s].turns, t) \in Seq(Turns)
          BY <4>2 DEF Session
        <5> QED
          BY <4>2, <5>1 DEF Session
      <4> QED
        BY <1>1, <2>1, <4>1, <4>3
    <3> QED
      BY <1>5, <3>1, <3>2, <3>3
  <2>3. \/ \E pc \in {"append", "read"} : saving' = [saving EXCEPT ![t].pc = pc]
        \/ saving' = Done(t)
    BY <1>5 DEF EnsureSession, AppendMessages
  <2>4. CASE saving' = Done(t)
    BY <1>4, <2>1, <2>2, <2>4
  <2>5. CASE \E pc \in {"append", "read"} : saving' = [saving EXCEPT ![t].pc = pc]
    <3>1. PICK pc \in {"append", "read"} : saving' = [saving EXCEPT ![t].pc = pc]
      BY <2>5
    <3>2. PICK x : x = [saving[t] EXCEPT !.pc = pc]
      OBVIOUS
    <3>3. x \in Saving /\ x.pc = pc /\ x.user = saving[t].user /\ x.sess = saving[t].sess
      BY <1>1, <3>2 DEF Saving, SavePc
    <3>4. saving' = [saving EXCEPT ![t] = x]
      BY <3>1, <3>2
    <3> QED
      BY <2>1, <2>2, <3>3, <3>4, SaveType
  <2> QED
    BY <2>3, <2>4, <2>5
<1>6. CASE GetFullSession(t)
  <2>1. /\ saving[t].pc = "read" /\ s \in SessionIds /\ session' = session
        /\ muddled' \subseteq SessionIds
    BY <1>1, <1>2, <1>6 DEF GetFullSession, Existing
  <2>2. CASE saving' = Done(t)
    BY <1>1, <1>4, <2>1, <2>2
  <2>3. CASE saving' # Done(t)
    <3>1. /\ Owns(u, s)
          /\ saving' = [saving EXCEPT ![t].pc = "summarize", ![t].seen = Summarized(session[s].turns)]
      BY <1>2, <1>3, <1>6, <2>3 DEF GetFullSession
    <3>2. session[s] \in Session
      BY <1>1, <2>1, <3>1 DEF Owns
    <3>3. Summarized(session[s].turns) \subseteq Turns
      <4>1. session[s].turns \in Seq(Turns)
        BY <3>2 DEF Session
      <4> QED
        BY <4>1 DEF Summarized, TurnsOf
    <3>4. PICK x : x = [saving[t] EXCEPT !.pc = "summarize", !.seen = Summarized(session[s].turns)]
      OBVIOUS
    <3>5. x \in Saving /\ x.pc = "summarize" /\ x.user = saving[t].user /\ x.sess = saving[t].sess
      BY <1>1, <3>3, <3>4 DEF Saving, SavePc
    <3>6. saving' = [saving EXCEPT ![t] = x]
      BY <3>1, <3>4
    <3> QED
      BY <1>1, <2>1, <3>5, <3>6, SaveType
  <2> QED
    BY <2>2, <2>3
<1>7. CASE UpdateSummary(t)
  <2>1. saving[t].pc = "summarize" /\ s \in SessionIds /\ saving' = Done(t)
    BY <1>1, <1>2, <1>7 DEF UpdateSummary
  <2>2. /\ DOMAIN session' = SessionIds /\ muddled' \subseteq SessionIds
        /\ \A i \in SessionIds : session'[i] = None \/ session'[i] \in Session
    <3>1. CASE session' = session
      BY <1>1, <1>7, <3>1 DEF UpdateSummary, Existing
    <3>2. CASE session' # session
      <4>1. /\ Owns(u, s) /\ session' = [session EXCEPT ![s].summary = saving[t].seen]
            /\ muddled' = muddled
        BY <1>2, <1>3, <1>7, <3>2 DEF UpdateSummary
      <4>2. session[s] \in Session
        BY <1>1, <2>1, <4>1 DEF Owns
      <4>3. [session[s] EXCEPT !.summary = saving[t].seen] \in Session
        BY <1>1, <4>2 DEF Session, Saving
      <4> QED
        BY <1>1, <2>1, <4>1, <4>3
    <3> QED
      BY <3>1, <3>2
  <2> QED
    BY <1>4, <2>1, <2>2
<1> QED
  BY <1>5, <1>6, <1>7 DEF SaveStep

LEMMA LearnStepType ==
  ASSUME TypeInv, RowInv, NEW t \in Turns, LearnStep(t), UNCHANGED <<sessionVars, gone, requests>>
  PROVE  TypeInv'
<1>1. /\ learning[t] \in Learning /\ Len(learning[t].todo) <= 2
      /\ row \in [Turns -> Row \cup {None}] /\ vector \in [Turns -> RowStatus \cup {"none"}]
      /\ drifted \subseteq Turns
  BY DEF TypeInv, TypeOK, MemoryTypeOK
<1>2. Learnt \in Learning /\ Learnt.pc = "done" /\ Learnt.todo = << >> /\ Learnt.again = FALSE
  <2>1. Unlearnt \in Learning /\ Unlearnt.todo = << >> /\ Unlearnt.again = FALSE
    BY DEF Unlearnt, Learning, LearnPc
  <2> QED
    BY <2>1 DEF Learnt, Learning, LearnPc
<1>3. ASSUME learning' = [learning EXCEPT ![t] = Learnt], learning[t].pc # "new",
             UNCHANGED <<cleaner, recall>>,
             row' \in [Turns -> Row \cup {None}], vector' \in [Turns -> RowStatus \cup {"none"}],
             drifted' \subseteq Turns
      PROVE  TypeInv'
  <2>1. Len(Learnt.todo) <= 2
    BY <1>2
  <2>2. PICK x : x = Learnt
    OBVIOUS
  <2> QED
    BY <1>2, <1>3, <2>1, <2>2, LearnType
<1>4. CASE GetActiveFact(t)
  <2>1. PICK rec \in Extracted(t) : \E m \in {None} \cup ActiveFact(rec.user, rec.fact) :
          learning' = [learning EXCEPT ![t] = [@ EXCEPT !.pc = "locked", !.rec = rec, !.active = m]]
    BY <1>4 DEF GetActiveFact
  <2>2. PICK m \in {None} \cup ActiveFact(rec.user, rec.fact) :
          learning' = [learning EXCEPT ![t] = [@ EXCEPT !.pc = "locked", !.rec = rec, !.active = m]]
    BY <2>1
  <2>3. m \in Turns \cup {None}
    BY DEF ActiveFact
  <2>4. learning[t].pc = "begin" /\ learning[t].todo = << >>
    BY <1>4 DEF GetActiveFact, TypeInv
  <2>5. saving[t].pc # "new" /\ saving[t].user \in Users /\ saving[t].sess \in SessionIds
    BY <2>4 DEF TypeInv
  <2>6. /\ rec \in Row /\ rec.status = "active"
        /\ rec.user = saving[t].user /\ rec.sess = saving[t].sess
    BY <2>5 DEF Extracted, Row, RowStatus, TypeInv, Lesson
  <2>7. PICK x : x = [learning[t] EXCEPT !.pc = "locked", !.rec = rec, !.active = m]
    OBVIOUS
  <2>8. /\ x \in Learning /\ x.pc = "locked" /\ x.rec = rec /\ x.todo = << >>
        /\ Len(x.todo) <= 2
    BY <1>1, <2>3, <2>4, <2>6, <2>7 DEF Learning, LearnPc
  <2>9. learning' = [learning EXCEPT ![t] = x]
    BY <2>2, <2>7
  <2> QED
    BY <1>1, <1>4, <2>4, <2>6, <2>8, <2>9, LearnType DEF GetActiveFact
<1>5. CASE WriteAgain(t)
  <2>1. learning[t].pc = "locked" /\ Lesson(t) /\ learning[t].todo = << >>
    BY <1>5 DEF WriteAgain, TypeInv
  <2>2. CASE learning[t].again
    <3>1. learning' = [learning EXCEPT ![t] = Learnt]
      BY <1>5, <2>2 DEF WriteAgain
    <3> QED
      BY <1>1, <1>3, <1>5, <2>1, <3>1 DEF WriteAgain
  <2>3. CASE ~ learning[t].again
    <3>1. PICK x : x = [learning[t] EXCEPT !.pc = "begin", !.active = None, !.again = TRUE]
      OBVIOUS
    <3>2. /\ x \in Learning /\ x.pc = "begin" /\ x.rec = learning[t].rec /\ x.todo = << >>
          /\ Len(x.todo) <= 2
      BY <1>1, <2>1, <3>1 DEF Learning, LearnPc
    <3>3. learning' = [learning EXCEPT ![t] = x]
      BY <1>5, <2>3, <3>1 DEF WriteAgain
    <3>4. /\ x.rec \in Row /\ x.rec.status = "active"
          /\ x.rec.user = saving[t].user /\ x.rec.sess = saving[t].sess
      BY <2>1, <3>2 DEF Lesson
    <3>5. UNCHANGED <<row, vector, cleaner, recall, drifted>>
      BY <1>5 DEF WriteAgain
    <3> QED
      BY <1>1, <2>1, <3>2, <3>3, <3>4, <3>5, LearnType
  <2> QED
    BY <2>2, <2>3
<1>6. CASE WriteTransaction(t)
  <2>1. learning[t].pc = "locked" /\ UNCHANGED <<vector, cleaner, recall>>
    BY <1>6, Outcomes
  <2>2. PICK todo : /\ Stores(t, todo) \/ Refreshes(t, todo) \/ Rejects(t, todo) \/ Replaces(t, todo)
                    /\ Commits(t, todo)
    BY <1>6, Outcomes
  <2>3. /\ row' \in [Turns -> Row \cup {None}]
        /\ todo \in Seq(Sync) /\ Len(todo) \in {1, 2} /\ Ids(todo) \subseteq Turns
    BY <1>6, <2>2, OutcomeType
  <2>4. drifted' \subseteq Turns
    BY <1>1, <2>2, <2>3 DEF Commits
  <2>5. CASE learning' = [learning EXCEPT ![t] = Learnt]
    BY <1>1, <1>3, <2>1, <2>3, <2>4, <2>5
  <2>6. CASE learning' = [learning EXCEPT ![t] = [Learnt EXCEPT !.pc = "sync", !.todo = todo]]
    <3>1. PICK x : x = [Learnt EXCEPT !.pc = "sync", !.todo = todo]
      OBVIOUS
    <3>2. /\ x \in Learning /\ x.pc = "sync" /\ x.todo = todo /\ x.again = FALSE
      BY <1>2, <2>3, <3>1 DEF Learning, LearnPc
    <3>3. todo # << >> /\ Len(todo) <= 2
      BY <2>3, OneOrTwo
    <3> QED
      BY <1>1, <2>1, <2>3, <2>4, <2>6, <3>1, <3>2, <3>3, LearnType
  <2> QED
    BY <2>2, <2>5, <2>6 DEF Commits
<1>7. CASE WriteFails(t)
  <2>1. learning' = [learning EXCEPT ![t] = Learnt] /\ learning[t].pc # "new"
    BY <1>7 DEF WriteFails, AfterFailure
  <2> QED
    BY <1>1, <1>3, <1>7, <2>1 DEF WriteFails
<1>8. CASE SyncVector(t)
  <2>1. learning[t].pc = "sync" /\ learning[t].todo # << >>
    BY <1>8 DEF SyncVector, TypeInv
  <2>2. learning[t].todo \in Seq(Sync)
    BY <1>1 DEF Learning
  <2>3. Head(learning[t].todo) \in Sync
    BY <2>1, <2>2
  <2>4. vector' \in [Turns -> RowStatus \cup {"none"}] /\ drifted' \subseteq Turns
    BY <1>1, <1>8, <2>3 DEF SyncVector, Sync
  <2>5. CASE Len(learning[t].todo) = 1
    <3>1. learning' = [learning EXCEPT ![t] = Learnt]
      BY <1>8, <2>5 DEF SyncVector, Continued
    <3> QED
      BY <1>1, <1>3, <1>8, <2>1, <2>4, <3>1 DEF SyncVector
  <2>6. CASE Len(learning[t].todo) # 1
    <3>1. Tail(learning[t].todo) \in Seq(Sync) /\ Len(Tail(learning[t].todo)) = 1
      BY <1>1, <2>1, <2>2, <2>6, TailOfTwo
    <3>2. PICK x : x = Continued(learning[t])
      OBVIOUS
    <3>3. /\ x \in Learning /\ x.pc = "sync" /\ x.todo = Tail(learning[t].todo)
          /\ x.again = learning[t].again /\ x.rec = learning[t].rec
      BY <1>1, <2>1, <2>6, <3>1, <3>2 DEF Continued, Learning
    <3>4. learning' = [learning EXCEPT ![t] = x]
      BY <1>8, <3>2 DEF SyncVector
    <3>5. x.todo # << >> /\ Len(x.todo) <= 2
      <4>1. Len(x.todo) \in {1, 2}
        BY <3>1, <3>3
      <4> QED
        BY <4>1, OneOrTwo
    <3>6. x.again => /\ x.rec \in Row /\ x.rec.status = "active"
                     /\ x.rec.user = saving[t].user /\ x.rec.sess = saving[t].sess
      <4>1. learning[t].again => Lesson(t)
        BY DEF TypeInv
      <4> QED
        BY <3>3, <4>1 DEF Lesson
    <3>7. UNCHANGED <<row, cleaner, recall>>
      BY <1>8 DEF SyncVector
    <3> QED
      BY <1>1, <2>1, <2>4, <3>3, <3>4, <3>5, <3>6, <3>7, LearnType
  <2> QED
    BY <2>5, <2>6
<1> QED
  BY <1>4, <1>5, <1>6, <1>7, <1>8 DEF LearnStep
\* A lesson is there only when its turn has a user.
LEMMA UserOfLesson ==
  ASSUME TypeInv, NEW t \in Turns, saving[t].pc = "new"
  PROVE  ~ learning[t].again
<1>1. saving[t].user = None
  BY DEF TypeInv, NewTurn
<1>2. ASSUME learning[t].again PROVE FALSE
  <2>1. learning[t].rec \in Row /\ learning[t].rec.user = None
    BY <1>1, <1>2 DEF TypeInv, Lesson
  <2> QED
    BY <2>1, TurnsAssumption DEF Row
<1> QED
  BY <1>2

\* What a client saves is a sequence of turns of the user.
LEMMA SavedTurns ==
  ASSUME NEW u, NEW s, NEW q \in Conversation(u, s)
  PROVE  q \in Seq(Turns) /\ \A t \in TurnsOf(q) : saving[t].user = u
<1> DEFINE own == {t \in Turns : saving[t].user = u /\ saving[t].sess = s}
<1>1. IsFiniteSet(own) /\ own \subseteq Turns
  BY FS_Subset, TurnsAssumption
<1>2. Cardinality(own) \in Nat
  BY <1>1, FS_CardinalityType
<1>3. PICK n \in 0..Cardinality(own) : q \in [1..n -> own]
  BY DEF Conversation
<1>4. n \in Nat /\ q \in [1..n -> Turns]
  BY <1>1, <1>2, <1>3
<1>5. q \in Seq(Turns)
  BY <1>4
<1>6. TurnsOf(q) \subseteq own
  BY <1>3 DEF TurnsOf
<1> QED
  BY <1>5, <1>6

LEMMA IdsToWrite ==
  ASSUME TypeInv, NEW t \in Turns
  PROVE  ToWrite(t) \subseteq Turns
<1>1. learning[t].todo \in Seq(Sync)
  BY DEF TypeInv, TypeOK, MemoryTypeOK, Learning
<1>2. \A i \in DOMAIN learning[t].todo : learning[t].todo[i] \in Sync
  BY <1>1
<1> QED
  BY <1>2 DEF ToWrite, Sync

\* What is noted of a deletion is of its type.
LEMMA GoneType ==
  ASSUME TypeInv, NEW s \in SessionIds, NEW turns \in SUBSET Turns,
         \/ gone' = [gone EXCEPT ![s].later = @ \cup turns]
         \/ gone' = [gone EXCEPT ![s].saved = TRUE]
  PROVE  gone' \in [SessionIds -> Deletion]
<1>1. gone \in [SessionIds -> Deletion] /\ gone[s] \in Deletion
  BY DEF TypeInv, TypeOK
<1>2. CASE gone' = [gone EXCEPT ![s].later = @ \cup turns]
  <2>1. PICK x : x = [gone[s] EXCEPT !.later = @ \cup turns]
    OBVIOUS
  <2>2. gone' = [gone EXCEPT ![s] = x]
    BY <1>1, <1>2, <2>1
  <2>3. x \in Deletion
    BY <1>1, <2>1 DEF Deletion
  <2> QED
    BY <1>1, <2>2, <2>3
<1>3. CASE gone' = [gone EXCEPT ![s].saved = TRUE]
  <2>1. PICK x : x = [gone[s] EXCEPT !.saved = TRUE]
    OBVIOUS
  <2>2. gone' = [gone EXCEPT ![s] = x]
    BY <1>1, <1>3, <2>1
  <2>3. x \in Deletion
    BY <1>1, <2>1 DEF Deletion
  <2> QED
    BY <1>1, <2>2, <2>3
<1> QED
  BY <1>2, <1>3

LEMMA AskType ==
  ASSUME TypeInv, NEW t \in Turns, NEW u \in Users, NEW s \in SessionIds, Ask(t, u, s)
  PROVE  TypeInv'
<1>1. PICK x : x = [NewTurn EXCEPT !.pc = "run", !.user = u, !.sess = s]
  OBVIOUS
<1>2. x \in Saving /\ x.pc = "run" /\ x.user = u /\ x.sess = s
  BY <1>1 DEF NewTurn, Saving, SavePc
<1>3. saving' = [saving EXCEPT ![t] = x] /\ saving[t].pc = "new"
  BY <1>1 DEF Ask
<1>4. /\ saving' \in [Turns -> Saving] /\ saving'[t] = x
      /\ \A m \in Turns \ {t} : saving'[m] = saving[m]
  BY <1>2, <1>3 DEF TypeInv, TypeOK, SessionTypeOK
<1>5. /\ UNCHANGED <<session, muddled, row, vector, learning, cleaner, recall, drifted, requests>>
      /\ gone' \in [SessionIds -> Deletion]
  <2>1. PICK turns \in SUBSET Turns : turns = {t}
    OBVIOUS
  <2>2. gone' = [gone EXCEPT ![s].later = @ \cup turns]
    BY <2>1 DEF Ask
  <2> QED
    BY <2>2, GoneType DEF Ask, memoryVars
<1>6. TypeOK'
  BY <1>4, <1>5 DEF TypeInv, TypeOK, SessionTypeOK, MemoryTypeOK
<1>7. learning[t].pc = "new" /\ ~ learning[t].again
  BY <1>3, UserOfLesson DEF TypeInv
<1>8. ASSUME NEW m \in Turns
      PROVE  /\ saving'[m].pc = "new" => saving'[m] = NewTurn
             /\ saving'[m].pc # "new" => saving'[m].user \in Users /\ saving'[m].sess \in SessionIds
             /\ saving'[m].pc \in {"new", "run"} <=> learning'[m].pc = "new"
             /\ learning'[m].again \/ learning'[m].pc = "locked" => Lesson(m)'
             /\ learning'[m].pc # "sync" <=> learning'[m].todo = << >>
  <2>1. CASE m = t
    BY <1>2, <1>4, <1>5, <1>7, <2>1 DEF TypeInv
  <2>2. CASE m # t
    BY <1>4, <1>5, <2>2 DEF TypeInv, Lesson
  <2> QED
    BY <2>1, <2>2
<1> QED
  BY <1>5, <1>6, <1>8 DEF TypeInv

LEMMA AnswerType ==
  ASSUME TypeInv, NEW t \in Turns, Answer(t)
  PROVE  TypeInv'
<1>1. /\ saving[t] \in Saving /\ learning[t] \in Learning /\ Len(learning[t].todo) <= 2
      /\ saving[t].pc = "run" /\ learning[t].pc = "new" /\ learning[t].todo = << >>
      /\ UNCHANGED <<session, muddled, row, vector, cleaner, recall, drifted, gone, requests>>
  BY DEF Answer, TypeInv, TypeOK, SessionTypeOK, MemoryTypeOK
<1>2. PICK a \in {"ensure", "done"} : saving' = [saving EXCEPT ![t].pc = a]
  BY DEF Answer
<1>3. PICK b \in {"begin", "done"} : learning' = [learning EXCEPT ![t].pc = b]
  BY DEF Answer
<1>4. /\ saving' \in [Turns -> Saving] /\ saving'[t].pc = a
      /\ saving'[t].user = saving[t].user /\ saving'[t].sess = saving[t].sess
      /\ \A m \in Turns \ {t} : saving'[m] = saving[m]
  BY <1>1, <1>2 DEF TypeInv, TypeOK, SessionTypeOK, Saving, SavePc
<1>5. /\ DOMAIN learning' = Turns /\ learning'[t] \in Learning
      /\ learning'[t].pc = b /\ learning'[t].todo = learning[t].todo
      /\ learning'[t].again = learning[t].again /\ learning'[t].rec = learning[t].rec
      /\ \A m \in Turns \ {t} : learning'[m] = learning[m]
  BY <1>1, <1>3 DEF TypeInv, TypeOK, MemoryTypeOK, Learning, LearnPc
<1>6. \A m \in Turns : learning'[m] \in Learning /\ Len(learning'[m].todo) <= 2
  BY <1>1, <1>5 DEF TypeInv, TypeOK, MemoryTypeOK
<1>7. TypeOK'
  BY <1>1, <1>4, <1>5, <1>6 DEF TypeInv, TypeOK, SessionTypeOK, MemoryTypeOK
<1>8. ASSUME NEW m \in Turns
      PROVE  /\ saving'[m].pc = "new" => saving'[m] = NewTurn
             /\ saving'[m].pc # "new" => saving'[m].user \in Users /\ saving'[m].sess \in SessionIds
             /\ saving'[m].pc \in {"new", "run"} <=> learning'[m].pc = "new"
             /\ learning'[m].again \/ learning'[m].pc = "locked" => Lesson(m)'
             /\ learning'[m].pc # "sync" <=> learning'[m].todo = << >>
  <2>1. CASE m = t
    BY <1>1, <1>4, <1>5, <2>1 DEF TypeInv, Lesson
  <2>2. CASE m # t
    BY <1>4, <1>5, <2>2 DEF TypeInv, Lesson
  <2> QED
    BY <2>1, <2>2
<1> QED
  BY <1>1, <1>7, <1>8 DEF TypeInv

\* Turns and goroutines are left alone.
LEMMA StillType ==
  ASSUME TypeInv, UNCHANGED <<saving, learning>>,
         DOMAIN session' = SessionIds, muddled' \subseteq SessionIds,
         \A s \in SessionIds : session'[s] = None \/ session'[s] \in Session,
         row' \in [Turns -> Row \cup {None}],
         vector' \in [Turns -> RowStatus \cup {"none"}],
         drifted' \subseteq Turns,
         cleaner' \in Cleaner, recall' \in Recall,
         gone' \in [SessionIds -> Deletion], requests' \in 0..MaxRequests,
         cleaner'.pc = "memories" => cleaner'.user \in Users /\ cleaner'.sess \in SessionIds,
         recall'.pc = "load" => recall'.user \in Users
  PROVE  TypeInv'
<1>1. TypeOK'
  BY DEF TypeInv, TypeOK, SessionTypeOK, MemoryTypeOK
<1> QED
  BY <1>1 DEF TypeInv, Lesson

LEMMA RequestStep ==
  ASSUME TypeInv, Request
  PROVE  requests' \in 0..MaxRequests
  BY RequestAssumption DEF Request, TypeInv, TypeOK

LEMMA SessionStepType ==
  ASSUME TypeInv, NEW u \in Users, NEW s \in SessionIds,
         SessionSave(u, s) \/ SessionDelete(u, s)
  PROVE  TypeInv'
<1>1. /\ DOMAIN session = SessionIds /\ muddled \subseteq SessionIds
      /\ \A i \in SessionIds : session[i] = None \/ session[i] \in Session
      /\ row \in [Turns -> Row \cup {None}] /\ vector \in [Turns -> RowStatus \cup {"none"}]
      /\ drifted \subseteq Turns /\ recall \in Recall /\ cleaner \in Cleaner
      /\ gone \in [SessionIds -> Deletion]
      /\ cleaner.pc = "memories" => cleaner.user \in Users /\ cleaner.sess \in SessionIds
      /\ recall.pc = "load" => recall.user \in Users
  BY DEF TypeInv, TypeOK, SessionTypeOK, MemoryTypeOK
<1>2. requests' \in 0..MaxRequests
  BY RequestStep DEF SessionSave, SessionDelete
<1>3. CASE SessionSave(u, s)
  <2>1. /\ UNCHANGED <<saving, row, vector, learning, cleaner, recall, drifted>>
        /\ muddled' = muddled \cup {s} /\ gone' = [gone EXCEPT ![s].saved = TRUE]
    BY <1>3 DEF SessionSave, Save, memoryVars
  <2>2. PICK q \in Conversation(u, s),
             summary \in {{}} \cup (IF Owns(u, s) THEN {session[s].summary} ELSE {}) :
               session' = [session EXCEPT ![s] = [owner |-> u, turns |-> q, summary |-> summary]]
    BY <1>3 DEF SessionSave, Save
  <2>3. q \in Seq(Turns)
    BY SavedTurns
  <2>4. summary \subseteq Turns
    BY <1>1, <2>2 DEF Owns, Session
  <2>5. [owner |-> u, turns |-> q, summary |-> summary] \in Session
    BY <2>3, <2>4 DEF Session
  <2>6. /\ DOMAIN session' = SessionIds
        /\ \A i \in SessionIds : session'[i] = None \/ session'[i] \in Session
    BY <1>1, <2>2, <2>5
  <2>7. gone' \in [SessionIds -> Deletion]
    <3>1. PICK turns \in SUBSET Turns : turns = {}
      OBVIOUS
    <3> QED
      BY <2>1, <3>1, GoneType
  <2> QED
    BY <1>1, <1>2, <2>1, <2>6, <2>7, StillType
<1>4. CASE SessionDelete(u, s)
  <2>1. /\ UNCHANGED <<saving, row, vector, learning, recall, drifted>>
        /\ session' = [session EXCEPT ![s] = None] /\ muddled' = muddled \ {s}
    BY <1>4 DEF SessionDelete, DeleteSession
  <2>2. cleaner' = [Resting EXCEPT !.pc = "memories", !.user = u, !.sess = s]
    BY <1>4 DEF SessionDelete
  <2>3. cleaner' \in Cleaner /\ cleaner'.user = u /\ cleaner'.sess = s
    BY <2>2 DEF Resting, Cleaner, CleanPc
  <2>4. /\ DOMAIN session' = SessionIds /\ muddled' \subseteq SessionIds
        /\ \A i \in SessionIds : session'[i] = None \/ session'[i] \in Session
    BY <1>1, <2>1
  <2>5. PICK x : /\ gone' = [gone EXCEPT ![s] = x]
                 /\ x = [user |-> u, kept |-> Memories(u, s), given |-> Given(s), saved |-> FALSE,
                         later |-> {t \in Turns : UnderWay(t, s)}]
    BY <1>4 DEF SessionDelete
  <2>6. Given(s) \subseteq Turns
    BY DEF Given, TypeInv, TypeOK, SessionTypeOK, Saving
  <2>7. x \in Deletion
    BY <2>5, <2>6 DEF Deletion, Memories
  <2>8. gone' \in [SessionIds -> Deletion]
    BY <1>1, <2>5, <2>7
  <2> QED
    BY <1>1, <1>2, <2>1, <2>3, <2>4, <2>8, StillType
<1> QED
  BY <1>3, <1>4

LEMMA CleanStepType ==
  ASSUME TypeInv,
         \/ \E u \in Users : DeleteMemories(u) /\ Request /\ UNCHANGED <<sessionVars, gone>>
         \/ DeleteBySession
         \/ DeleteVectors /\ UNCHANGED <<sessionVars, gone, requests>>
  PROVE  TypeInv'
<1>1. /\ DOMAIN session = SessionIds /\ muddled \subseteq SessionIds
      /\ \A i \in SessionIds : session[i] = None \/ session[i] \in Session
      /\ row \in [Turns -> Row \cup {None}] /\ vector \in [Turns -> RowStatus \cup {"none"}]
      /\ drifted \subseteq Turns /\ recall \in Recall /\ cleaner \in Cleaner
      /\ gone \in [SessionIds -> Deletion] /\ requests \in 0..MaxRequests
      /\ cleaner.pc = "memories" => cleaner.user \in Users /\ cleaner.sess \in SessionIds
      /\ recall.pc = "load" => recall.user \in Users
  BY DEF TypeInv, TypeOK, SessionTypeOK, MemoryTypeOK
<1>2. Resting \in Cleaner /\ Resting.pc = "idle"
  BY DEF Resting, Cleaner, CleanPc
<1>3. ASSUME NEW ids \in SUBSET Turns, NEW next \in Cleaner, DeleteRows(ids, next)
      PROVE  /\ row' \in [Turns -> Row \cup {None}] /\ drifted' \subseteq Turns
             /\ cleaner' \in Cleaner /\ cleaner'.pc = "vectors"
  BY <1>1, <1>3 DEF DeleteRows, Cleaner, CleanPc
<1>4. ASSUME NEW u \in Users, DeleteMemories(u), Request, UNCHANGED <<sessionVars, gone>>
      PROVE  TypeInv'
  <2>1. PICK ids \in {{m} : m \in OfUser(u)} \cup {OfUser(u)} :
          DeleteRows(ids, [Resting EXCEPT !.user = u])
    BY <1>4 DEF DeleteMemories
  <2>2. ids \subseteq Turns
    BY DEF OfUser
  <2>3. PICK next : next = [Resting EXCEPT !.user = u]
    OBVIOUS
  <2>4. next \in Cleaner
    BY <2>3 DEF Resting, Cleaner, CleanPc
  <2>5. /\ row' \in [Turns -> Row \cup {None}] /\ drifted' \subseteq Turns
        /\ cleaner' \in Cleaner /\ cleaner'.pc = "vectors"
    BY <1>3, <2>1, <2>2, <2>3, <2>4
  <2>6. UNCHANGED <<session, saving, muddled, gone, vector, learning, recall>>
    BY <1>4 DEF DeleteMemories, sessionVars
  <2> QED
    BY <1>1, <1>4, <2>5, <2>6, RequestStep, StillType
<1>5. CASE DeleteBySession
  <2>1. UNCHANGED <<session, saving, muddled, vector, learning, recall, requests>>
        /\ cleaner.pc = "memories"
    BY <1>5 DEF DeleteBySession, sessionVars
  <2>2. CASE cleaner' = Resting /\ UNCHANGED <<row, drifted, gone>>
    BY <1>1, <1>2, <2>1, <2>2, StillType
  <2>3. CASE /\ DeleteRows(OfSession(cleaner.user, cleaner.sess), cleaner)
             /\ gone' = [gone EXCEPT ![cleaner.sess].kept = {}]
    <3>1. OfSession(cleaner.user, cleaner.sess) \in SUBSET Turns
      BY DEF OfSession
    <3>2. PICK ids \in SUBSET Turns : ids = OfSession(cleaner.user, cleaner.sess)
      BY <3>1
    <3>3. PICK next \in Cleaner : next = cleaner
      BY <1>1
    <3>4. /\ row' \in [Turns -> Row \cup {None}] /\ drifted' \subseteq Turns
          /\ cleaner' \in Cleaner /\ cleaner'.pc = "vectors"
      BY <1>3, <2>3, <3>2, <3>3
    <3>5. gone' \in [SessionIds -> Deletion]
      BY <1>1, <2>1, <2>3 DEF Deletion
    <3> QED
      BY <1>1, <2>1, <3>4, <3>5, StillType
  <2> QED
    BY <1>5, <2>2, <2>3 DEF DeleteBySession
<1>6. CASE DeleteVectors /\ UNCHANGED <<sessionVars, gone, requests>>
  <2>1. /\ UNCHANGED <<session, saving, muddled, row, learning, recall, gone, requests>>
        /\ cleaner' = Resting
    BY <1>6 DEF DeleteVectors, sessionVars
  <2>2. vector' \in [Turns -> RowStatus \cup {"none"}] /\ drifted' \subseteq Turns
    BY <1>1, <1>6 DEF DeleteVectors, Cleaner
  <2> QED
    BY <1>1, <1>2, <2>1, <2>2, StillType
<1> QED
  BY <1>4, <1>5, <1>6

LEMMA RecallStepType ==
  ASSUME TypeInv, RecallStep, UNCHANGED <<sessionVars, gone, requests>>
  PROVE  TypeInv'
<1>1. /\ DOMAIN session = SessionIds /\ muddled \subseteq SessionIds
      /\ \A i \in SessionIds : session[i] = None \/ session[i] \in Session
      /\ row \in [Turns -> Row \cup {None}] /\ vector \in [Turns -> RowStatus \cup {"none"}]
      /\ drifted \subseteq Turns /\ recall \in Recall /\ cleaner \in Cleaner
      /\ gone \in [SessionIds -> Deletion] /\ requests \in 0..MaxRequests
      /\ cleaner.pc = "memories" => cleaner.user \in Users /\ cleaner.sess \in SessionIds
  BY DEF TypeInv, TypeOK, SessionTypeOK, MemoryTypeOK
<1>2. UNCHANGED <<session, saving, muddled, row, vector, learning, cleaner, drifted, gone, requests>>
  BY DEF RecallStep, Search, LoadRecall, EndRecall, sessionVars
<1>3. NoRecall \in Recall /\ NoRecall.pc = "idle"
  BY DEF NoRecall, Recall
<1>4. recall' \in Recall /\ (recall'.pc = "load" => recall'.user \in Users)
  <2>1. ASSUME NEW u \in Users, Search(u)
        PROVE  recall' \in Recall /\ (recall'.pc = "load" => recall'.user \in Users)
    BY <2>1 DEF Search, Recall, Candidates, Dead
  <2>2. CASE EndRecall
    BY <1>3, <2>2 DEF EndRecall
  <2>3. CASE LoadRecall
    <3>1. Recalled(recall.user) \subseteq Turns
      BY <1>1 DEF Recalled, Recall
    <3> QED
      BY <1>1, <1>3, <2>3, <3>1 DEF LoadRecall, Recall
  <2> QED
    BY <2>1, <2>2, <2>3 DEF RecallStep
<1> QED
  BY <1>1, <1>2, <1>4, StillType

LEMMA RestartType ==
  ASSUME TypeInv, Restart
  PROVE  TypeInv'
<1>1. \A m \in Turns : saving'[m] = IF m \in Asked THEN Done(m)[m] ELSE NewTurn
  BY DEF Restart
<1>2. \A m \in Turns : learning'[m] = IF m \in Asked THEN Learnt ELSE Unlearnt
  BY DEF Restart
<1>3. ASSUME NEW m \in Turns
      PROVE  /\ saving'[m] \in Saving
             /\ saving'[m].pc = IF saving[m].pc = "new" THEN "new" ELSE "done"
             /\ saving'[m].user = saving[m].user /\ saving'[m].sess = saving[m].sess
             /\ saving'[m].seen = {}
             /\ saving'[m].pc = "new" => saving'[m] = NewTurn
  <2>1. saving[m] \in Saving
    BY DEF TypeInv, TypeOK, SessionTypeOK
  <2>2. CASE m \in Asked
    <3>1. saving'[m] = [saving[m] EXCEPT !.pc = "done", !.seen = {}]
      BY <1>1, <2>2 DEF Done, TypeInv, TypeOK, SessionTypeOK
    <3> QED
      BY <2>1, <2>2, <3>1 DEF Asked, Saving, SavePc
  <2>3. CASE m \notin Asked
    <3>1. saving[m].pc = "new" /\ saving[m] = NewTurn /\ saving'[m] = NewTurn
      BY <1>1, <2>3 DEF Asked, TypeInv
    <3>2. NewTurn.pc = "new" /\ NewTurn.seen = {}
      BY DEF NewTurn
    <3> QED
      BY <2>1, <3>1, <3>2
  <2> QED
    BY <2>2, <2>3
<1>4. ASSUME NEW m \in Turns
      PROVE  /\ learning'[m] \in Learning /\ Len(learning'[m].todo) <= 2
             /\ learning'[m].pc = IF saving[m].pc = "new" THEN "new" ELSE "done"
             /\ learning'[m].again = FALSE /\ learning'[m].todo = << >>
  <2>1. Unlearnt \in Learning /\ Unlearnt.todo = << >> /\ Unlearnt.again = FALSE /\ Unlearnt.pc = "new"
    BY DEF Unlearnt, Learning, LearnPc
  <2>2. Learnt \in Learning /\ Learnt.todo = << >> /\ Learnt.again = FALSE /\ Learnt.pc = "done"
    BY <2>1 DEF Learnt, Learning, LearnPc
  <2>3. Len(<< >>) <= 2
    OBVIOUS
  <2> QED
    BY <1>2, <2>1, <2>2, <2>3 DEF Asked
<1>5. saving' \in [Turns -> Saving] /\ DOMAIN learning' = Turns
  BY <1>3 DEF Restart
<1>6. UNCHANGED <<session, row, vector, gone, requests>> /\ muddled' \subseteq SessionIds
  BY DEF Restart, Existing, TypeInv, TypeOK, SessionTypeOK
<1>7. drifted' \subseteq Turns
  <2>1. \A m \in Turns : ToWrite(m) \subseteq Turns
    BY IdsToWrite
  <2>2. ToDelete \subseteq Turns
    BY DEF ToDelete, TypeInv, TypeOK, MemoryTypeOK, Cleaner
  <2> QED
    BY <2>1, <2>2 DEF Restart, Held, TypeInv, TypeOK, MemoryTypeOK
<1>8. cleaner' \in Cleaner /\ cleaner'.pc = "idle" /\ recall' \in Recall /\ recall'.pc = "idle"
  BY DEF Restart, Resting, Cleaner, CleanPc, NoRecall, Recall
<1>9. TypeOK'
  BY <1>4, <1>5, <1>6, <1>7, <1>8 DEF TypeInv, TypeOK, SessionTypeOK, MemoryTypeOK
<1> QED
  BY <1>3, <1>4, <1>8, <1>9 DEF TypeInv

LEMMA TypeStep ==
  ASSUME TypeInv, RowInv, [Next]_vars
  PROVE  TypeInv'
<1>1. CASE UNCHANGED vars
  BY <1>1, StillType DEF vars, sessionVars, memoryVars, TypeInv, TypeOK, SessionTypeOK, MemoryTypeOK
<1> QED
  BY <1>1, AskType, AnswerType, SaveStepType, LearnStepType, SessionStepType, CleanStepType,
     RecallStepType, RestartType DEF Next
-----------------------------------------------------------------------------
(* Owners.                                                                 *)

LEMMA OwnerStart == ASSUME Init PROVE OwnerInv
  BY DEF Init, SessionInit, NewTurn, OwnerInv, OwnerIsKept

\* Turns keep their users.
LEMMA UsersStay ==
  ASSUME TypeInv, [Next]_vars, NEW t \in Turns, saving[t].pc # "new"
  PROVE  saving'[t].user = saving[t].user /\ saving'[t].sess = saving[t].sess
<1>1. saving \in [Turns -> Saving]
  BY DEF TypeInv, TypeOK, SessionTypeOK
<1>2. ASSUME NEW x \in Turns, SaveStep(x) PROVE saving'[t].user = saving[t].user /\ saving'[t].sess = saving[t].sess
  BY <1>1, <1>2 DEF SaveStep, EnsureSession, AppendMessages, GetFullSession, UpdateSummary, Done, Saving
<1>3. ASSUME NEW x \in Turns, NEW u \in Users, NEW s \in SessionIds, Ask(x, u, s)
      PROVE  saving'[t].user = saving[t].user /\ saving'[t].sess = saving[t].sess
  BY <1>1, <1>3 DEF Ask
<1>4. ASSUME NEW x \in Turns, Answer(x) PROVE saving'[t].user = saving[t].user /\ saving'[t].sess = saving[t].sess
  BY <1>1, <1>4 DEF Answer, Saving
<1>5. CASE Restart
  <2>1. saving'[t] = Done(t)[t]
    BY <1>5 DEF Restart, Asked
  <2> QED
    BY <1>1, <2>1 DEF Done, Saving
<1>6. CASE saving' = saving
  BY <1>6
<1> QED
  BY <1>2, <1>3, <1>4, <1>5, <1>6 DEF Next, vars, sessionVars, SessionSave, Save, SessionDelete,
     DeleteSession, DeleteBySession

\* What is left of sessions after a step: an old one, or one of the owner's turns.
LEMMA OwnerFrame ==
  ASSUME TypeInv, TypeInv', OwnerInv, [Next]_vars,
         \A s \in SessionIds : session'[s] # None =>
           \A t \in TurnsOf(session'[s].turns) \cup session'[s].summary :
             \/ /\ session[s] # None /\ session'[s].owner = session[s].owner
                /\ t \in TurnsOf(session[s].turns) \cup session[s].summary
             \/ t \in Turns /\ saving[t].user = session'[s].owner,
         \A x \in Turns : \A t \in saving'[x].seen :
           \/ t \in saving[x].seen
           \/ saving[x].pc # "new" /\ saving[t].user = saving[x].user
  PROVE  OwnerInv'
<1>1. ASSUME NEW s \in SessionIds, session'[s] # None,
             NEW t \in TurnsOf(session'[s].turns) \cup session'[s].summary
      PROVE  saving'[t].user = session'[s].owner
  <2>1. session'[s].owner \in Users /\ session'[s].turns \in Seq(Turns) /\ session'[s].summary \subseteq Turns
    BY <1>1 DEF TypeInv, TypeOK, SessionTypeOK, Session
  <2>2. t \in Turns
    BY <1>1, <2>1 DEF TurnsOf
  <2>3. saving[t].user = session'[s].owner
    BY <1>1 DEF OwnerInv, OwnerIsKept
  <2>4. saving[t].pc # "new"
    BY <2>1, <2>2, <2>3, TurnsAssumption DEF TypeInv, NewTurn
  <2> QED
    BY <2>2, <2>3, <2>4, UsersStay
<1>2. ASSUME NEW x \in Turns, NEW t \in saving'[x].seen
      PROVE  saving'[t].user = saving'[x].user
  <2>1. t \in Turns
    BY <1>2 DEF TypeInv, TypeOK, SessionTypeOK, Saving
  <2>2. saving[t].user = saving[x].user /\ saving[x].pc # "new"
    BY <1>2 DEF OwnerInv, TypeInv, NewTurn
  <2>3. saving[t].pc # "new"
    BY <2>1, <2>2, TurnsAssumption DEF TypeInv, NewTurn
  <2> QED
    BY <2>1, <2>2, <2>3, UsersStay
<1> QED
  BY <1>1, <1>2 DEF OwnerInv, OwnerIsKept
LEMMA AppendedTurns ==
  ASSUME NEW q \in Seq(Turns), NEW t \in Turns
  PROVE  TurnsOf(Append(q, t)) = TurnsOf(q) \cup {t}
<1>1. /\ Len(q) \in Nat /\ DOMAIN q = 1..Len(q) /\ DOMAIN Append(q, t) = 1..(Len(q) + 1)
      /\ \A k \in 1..Len(q) : Append(q, t)[k] = q[k]
      /\ Append(q, t)[Len(q) + 1] = t
  OBVIOUS
<1> QED
  BY <1>1 DEF TurnsOf

LEMMA OwnerStep ==
  ASSUME TypeInv, TypeInv', OwnerInv, [Next]_vars
  PROVE  OwnerInv'
<1> DEFINE Kept == \A s \in SessionIds : session'[s] # None =>
             \A t \in TurnsOf(session'[s].turns) \cup session'[s].summary :
               \/ /\ session[s] # None /\ session'[s].owner = session[s].owner
                  /\ t \in TurnsOf(session[s].turns) \cup session[s].summary
               \/ t \in Turns /\ saving[t].user = session'[s].owner
           Seen == \A x \in Turns : \A t \in saving'[x].seen :
             \/ t \in saving[x].seen
             \/ saving[x].pc # "new" /\ saving[t].user = saving[x].user
<1>1. /\ saving \in [Turns -> Saving] /\ DOMAIN session = SessionIds
      /\ \A s \in SessionIds : session[s] = None \/ session[s] \in Session
      /\ \A t \in Turns : saving[t].pc # "new" => saving[t].user \in Users /\ saving[t].sess \in SessionIds
  BY DEF TypeInv, TypeOK, SessionTypeOK
<1>2. Kept /\ Seen => OwnerInv'
  BY OwnerFrame
<1>3. session' = session => Kept
  OBVIOUS
<1>4. (\A x \in Turns : saving'[x].seen \in {{}, saving[x].seen}) => Seen
  OBVIOUS
<1>5. \A t \in Turns : saving' = Done(t) => \A x \in Turns : saving'[x].seen \in {{}, saving[x].seen}
  BY <1>1 DEF Done, Saving
<1>6. ASSUME NEW t \in Turns, EnsureSession(t) PROVE OwnerInv'
  <2>1. saving' = Done(t) \/ saving' = [saving EXCEPT ![t].pc = "append"]
    BY <1>6 DEF EnsureSession
  <2>2. \A x \in Turns : saving'[x].seen \in {{}, saving[x].seen}
    BY <1>1, <1>5, <2>1 DEF Saving
  <2>3. saving[t].pc = "ensure" /\ saving[t].sess \in SessionIds
    BY <1>1, <1>6 DEF EnsureSession
  <2>4. CASE session' = [session EXCEPT ![saving[t].sess] = Created(saving[t].user)]
    <3>1. session'[saving[t].sess] = Created(saving[t].user)
      BY <1>1, <2>3, <2>4
    <3>2. Created(saving[t].user).turns = << >> /\ Created(saving[t].user).summary = {}
      BY DEF Created
    <3>3. TurnsOf(<< >>) = {}
      BY DEF TurnsOf
    <3>4. Kept
      BY <1>1, <2>3, <2>4, <3>1, <3>2, <3>3
    <3> QED
      BY <1>2, <1>4, <2>2, <3>4
  <2> QED
    BY <1>2, <1>3, <1>4, <1>6, <2>2, <2>4 DEF EnsureSession
<1>7. ASSUME NEW t \in Turns, AppendMessages(t) PROVE OwnerInv'
  <2>1. saving' = Done(t) \/ saving' = [saving EXCEPT ![t].pc = "read"]
    BY <1>7 DEF AppendMessages
  <2>2. \A x \in Turns : saving'[x].seen \in {{}, saving[x].seen}
    BY <1>1, <1>5, <2>1 DEF Saving
  <2>3. saving[t].pc = "append" /\ saving[t].sess \in SessionIds
    BY <1>1, <1>7 DEF AppendMessages
  <2>4. PICK s \in SessionIds : s = saving[t].sess
    BY <2>3
  <2>5. CASE Appendable(saving[t].user, s) /\ session' = [session EXCEPT ![s].turns = Append(@, t)]
    <3>1. session[s] \in Session /\ session[s].owner = saving[t].user
      BY <1>1, <2>5 DEF Appendable, Owns
    <3>2. PICK q \in Seq(Turns) : q = session[s].turns
      BY <3>1 DEF Session
    <3>3. /\ session'[s].turns = Append(q, t) /\ session'[s].summary = session[s].summary
          /\ session'[s].owner = session[s].owner
          /\ \A i \in SessionIds \ {s} : session'[i] = session[i]
      BY <1>1, <2>5, <3>1, <3>2 DEF Session
    <3>4. TurnsOf(Append(q, t)) = TurnsOf(q) \cup {t}
      BY AppendedTurns
    <3>5. Kept
      <4>1. SUFFICES ASSUME NEW i \in SessionIds, session'[i] # None,
                            NEW x \in TurnsOf(session'[i].turns) \cup session'[i].summary
                     PROVE  \/ /\ session[i] # None /\ session'[i].owner = session[i].owner
                               /\ x \in TurnsOf(session[i].turns) \cup session[i].summary
                            \/ x \in Turns /\ saving[x].user = session'[i].owner
        OBVIOUS
      <4>2. CASE i # s
        BY <3>3, <4>1, <4>2
      <4>3. CASE i = s
        BY <1>1, <2>5, <3>1, <3>2, <3>3, <3>4, <4>1, <4>3, NoSessionAssumption
      <4> QED
        BY <4>2, <4>3
    <3> QED
      BY <1>2, <1>4, <2>2, <3>5
  <2> QED
    BY <1>2, <1>3, <1>4, <1>7, <2>2, <2>4, <2>5 DEF AppendMessages
<1>8. ASSUME NEW t \in Turns, GetFullSession(t) PROVE OwnerInv'
  <2>1. session' = session /\ saving[t].pc = "read" /\ saving[t].sess \in SessionIds
    BY <1>1, <1>8 DEF GetFullSession
  <2>2. CASE saving' = Done(t)
    BY <1>2, <1>3, <1>4, <1>5, <2>1, <2>2
  <2>3. CASE saving' # Done(t)
    <3>1. PICK s \in SessionIds : s = saving[t].sess
      BY <2>1
    <3>2. /\ Owns(saving[t].user, s)
          /\ saving' = [saving EXCEPT ![t].pc = "summarize", ![t].seen = Summarized(session[s].turns)]
      BY <1>8, <2>3, <3>1 DEF GetFullSession
    <3>3. \A m \in TurnsOf(session[s].turns) : saving[m].user = saving[t].user
      BY <3>2 DEF Owns, OwnerInv, OwnerIsKept
    <3>4. \A x \in Turns : saving'[x].seen = IF x = t THEN TurnsOf(session[s].turns) ELSE saving[x].seen
      BY <1>1, <3>2 DEF Saving, Summarized
    <3>5. Seen
      BY <2>1, <3>3, <3>4
    <3> QED
      BY <1>2, <1>3, <2>1, <3>5
  <2> QED
    BY <2>2, <2>3
<1>9. ASSUME NEW t \in Turns, UpdateSummary(t) PROVE OwnerInv'
  <2>1. saving' = Done(t) /\ saving[t].pc = "summarize" /\ saving[t].sess \in SessionIds
    BY <1>1, <1>9 DEF UpdateSummary
  <2>2. PICK s \in SessionIds : s = saving[t].sess
    BY <2>1
  <2>3. CASE Owns(saving[t].user, s) /\ session' = [session EXCEPT ![s].summary = saving[t].seen]
    <3>1. session[s] \in Session /\ session[s].owner = saving[t].user
      BY <1>1, <2>3 DEF Owns
    <3>2. /\ session'[s].turns = session[s].turns /\ session'[s].summary = saving[t].seen
          /\ session'[s].owner = session[s].owner
          /\ \A i \in SessionIds \ {s} : session'[i] = session[i]
      BY <1>1, <2>3, <3>1 DEF Session
    <3>3. saving[t].seen \subseteq Turns /\ \A x \in saving[t].seen : saving[x].user = saving[t].user
      BY <1>1 DEF Saving, OwnerInv
    <3>4. Kept
      <4>1. SUFFICES ASSUME NEW i \in SessionIds, session'[i] # None,
                            NEW x \in TurnsOf(session'[i].turns) \cup session'[i].summary
                     PROVE  \/ /\ session[i] # None /\ session'[i].owner = session[i].owner
                               /\ x \in TurnsOf(session[i].turns) \cup session[i].summary
                            \/ x \in Turns /\ saving[x].user = session'[i].owner
        OBVIOUS
      <4>2. CASE i # s
        BY <3>2, <4>1, <4>2
      <4>3. CASE i = s
        BY <1>1, <2>3, <3>1, <3>2, <3>3, <4>1, <4>3, NoSessionAssumption
      <4> QED
        BY <4>2, <4>3
    <3> QED
      BY <1>2, <1>4, <1>5, <2>1, <3>4
  <2> QED
    BY <1>2, <1>3, <1>4, <1>5, <1>9, <2>1, <2>2, <2>3 DEF UpdateSummary
<1>10. ASSUME NEW u \in Users, NEW s \in SessionIds, SessionSave(u, s) PROVE OwnerInv'
  <2>1. PICK q \in Conversation(u, s),
             summary \in {{}} \cup (IF Owns(u, s) THEN {session[s].summary} ELSE {}) :
               session' = [session EXCEPT ![s] = [owner |-> u, turns |-> q, summary |-> summary]]
    BY <1>10 DEF SessionSave, Save
  <2>2. q \in Seq(Turns) /\ \A t \in TurnsOf(q) : t \in Turns /\ saving[t].user = u
    <3>1. q \in Seq(Turns) /\ \A t \in TurnsOf(q) : saving[t].user = u
      BY SavedTurns
    <3> QED
      BY <3>1 DEF TurnsOf
  <2>3. \A t \in summary : /\ session[s] # None /\ session[s].owner = u
                           /\ t \in session[s].summary
    BY <2>1 DEF Owns
  <2>4. /\ session'[s].owner = u /\ session'[s].turns = q /\ session'[s].summary = summary
        /\ \A i \in SessionIds \ {s} : session'[i] = session[i]
    BY <1>1, <2>1
  <2>5. Kept
    BY <2>2, <2>3, <2>4
  <2>6. saving' = saving
    BY <1>10 DEF SessionSave, Save
  <2> QED
    BY <1>2, <1>4, <2>5, <2>6
<1>11. ASSUME NEW u \in Users, NEW s \in SessionIds, SessionDelete(u, s) PROVE OwnerInv'
  <2>1. saving' = saving /\ session' = [session EXCEPT ![s] = None]
    BY <1>11 DEF SessionDelete, DeleteSession
  <2>2. Kept
    BY <1>1, <2>1
  <2> QED
    BY <1>2, <1>4, <2>1, <2>2
<1>12. ASSUME NEW t \in Turns, NEW u \in Users, NEW s \in SessionIds, Ask(t, u, s) PROVE OwnerInv'
  <2>1. session' = session /\ saving' = [saving EXCEPT ![t] = [NewTurn EXCEPT !.pc = "run", !.user = u, !.sess = s]]
    BY <1>12 DEF Ask
  <2>2. \A x \in Turns : saving'[x].seen \in {{}, saving[x].seen}
    BY <1>1, <2>1 DEF NewTurn
  <2> QED
    BY <1>2, <1>3, <1>4, <2>1, <2>2
<1>13. ASSUME NEW t \in Turns, Answer(t) PROVE OwnerInv'
  <2>1. session' = session /\ \A x \in Turns : saving'[x].seen = saving[x].seen
    BY <1>1, <1>13 DEF Answer, Saving
  <2> QED
    BY <1>2, <1>3, <1>4, <2>1
<1>14. CASE Restart
  <2>1. session' = session /\ \A m \in Turns : saving'[m] = IF m \in Asked THEN Done(m)[m] ELSE NewTurn
    BY <1>14 DEF Restart
  <2>2. \A m \in Turns : Done(m)[m].seen = {}
    BY <1>1 DEF Done, Saving
  <2>3. \A x \in Turns : saving'[x].seen \in {{}, saving[x].seen}
    BY <2>1, <2>2 DEF NewTurn
  <2> QED
    BY <1>2, <1>3, <1>4, <2>1, <2>3
<1>15. CASE UNCHANGED <<session, saving>>
  BY <1>2, <1>3, <1>4, <1>15
<1> QED
  BY <1>6, <1>7, <1>8, <1>9, <1>10, <1>11, <1>12, <1>13, <1>14, <1>15
     DEF Next, vars, sessionVars, SaveStep, DeleteBySession
-----------------------------------------------------------------------------
(* Summaries.                                                              *)

LEMMA SummaryStart == ASSUME Init PROVE SummaryInv
  BY DEF Init, SessionInit, SummaryInv

\* The session and its summaries under way are as they were.
LEMMA SummaryFrame ==
  ASSUME SummaryInv, NEW s \in SessionIds, s \notin muddled, session'[s] = session[s], session[s] # None,
         \A x \in Turns : /\ x \in Summarizing(s)' <=> x \in Summarizing(s)
                          /\ x \in Summarizing(s) => saving'[x] = saving[x]
  PROVE  /\ \A t, x \in Summarizing(s)' : t = x
         /\ \A t \in Summarizing(s)' :
              saving'[t].pc = "summarize" => saving'[t].seen = TurnsOf(session'[s].turns)
         /\ Summarizing(s)' = {} => session'[s].summary = TurnsOf(session'[s].turns)
<1>1. Summarizing(s)' = Summarizing(s)
  BY DEF Summarizing
<1> QED
  BY <1>1 DEF SummaryInv, Summarizing

LEMMA SummaryStep ==
  ASSUME TypeInv, SummaryInv, [Next]_vars
  PROVE  SummaryInv'
<1> DEFINE Good(s) ==
             /\ \A t, x \in Summarizing(s) : t = x
             /\ \A t \in Summarizing(s) :
                  saving[t].pc = "summarize" => saving[t].seen = TurnsOf(session[s].turns)
             /\ Summarizing(s) = {} => session[s].summary = TurnsOf(session[s].turns)
<1>1. /\ saving \in [Turns -> Saving] /\ DOMAIN session = SessionIds
      /\ \A s \in SessionIds : session[s] = None \/ session[s] \in Session
  BY DEF TypeInv, TypeOK, SessionTypeOK
<1>2. SUFFICES ASSUME NEW s \in SessionIds, s \notin muddled', session'[s] # None
               PROVE  Good(s)'
  BY DEF SummaryInv
<1>3. ASSUME s \notin muddled, session'[s] = session[s],
             \A x \in Turns : /\ x \in Summarizing(s)' <=> x \in Summarizing(s)
                              /\ x \in Summarizing(s) => saving'[x] = saving[x]
      PROVE  Good(s)'
  BY <1>2, <1>3, SummaryFrame
<1>4. ASSUME NEW t \in Turns, saving' = Done(t)
      PROVE  /\ \A x \in Turns \ {t} : saving'[x] = saving[x]
             /\ saving'[t].pc = "done" /\ saving'[t].sess = saving[t].sess
  BY <1>1, <1>4 DEF Done, Saving
<1>5. ASSUME NEW t \in Turns, EnsureSession(t) PROVE Good(s)'
  <2>1. /\ \A x \in Turns \ {t} : saving'[x] = saving[x]
        /\ saving[t].pc = "ensure" /\ saving'[t].pc \in {"append", "done"}
    BY <1>1, <1>4, <1>5 DEF EnsureSession, Saving
  <2>2. \A x \in Turns : /\ x \in Summarizing(s)' <=> x \in Summarizing(s)
                         /\ x \in Summarizing(s) => saving'[x] = saving[x]
    BY <2>1 DEF Summarizing
  <2>3. CASE session'[s] = session[s] /\ s \notin muddled
    BY <1>3, <2>2, <2>3
  <2>4. CASE ~ (session'[s] = session[s] /\ s \notin muddled)
    <3>1. /\ saving[t].sess = s /\ session' = [session EXCEPT ![s] = Created(saving[t].user)]
          /\ Summarizing(s) = {}
      BY <1>1, <1>2, <1>5, <2>4 DEF EnsureSession
    <3>2. session'[s].summary = {} /\ session'[s].turns = << >>
      BY <1>1, <3>1 DEF Created
    <3>3. Summarizing(s)' = {}
      BY <2>2, <3>1 DEF Summarizing
    <3> QED
      BY <3>2, <3>3 DEF TurnsOf
  <2> QED
    BY <2>3, <2>4
<1>6. ASSUME NEW t \in Turns, AppendMessages(t) PROVE Good(s)'
  <2>1. /\ \A x \in Turns \ {t} : saving'[x] = saving[x]
        /\ saving[t].pc = "append" /\ saving'[t].pc \in {"read", "done"}
        /\ saving'[t].sess = saving[t].sess
    BY <1>1, <1>4, <1>6 DEF AppendMessages, Saving
  <2>2. CASE saving[t].sess = s /\ saving'[t].pc = "read"
    <3>1. Summarizing(s) = {}
      BY <1>2, <1>4, <1>6, <2>2 DEF AppendMessages
    <3>2. Summarizing(s)' = {t}
      BY <2>1, <2>2, <3>1 DEF Summarizing
    <3> QED
      BY <2>2, <3>2
  <2>3. CASE saving[t].sess # s \/ saving'[t].pc = "done"
    <3>1. \A x \in Turns : /\ x \in Summarizing(s)' <=> x \in Summarizing(s)
                           /\ x \in Summarizing(s) => saving'[x] = saving[x]
      BY <2>1, <2>3 DEF Summarizing
    <3>2. session'[s] = session[s] /\ (s \in muddled' <=> s \in muddled)
      BY <1>1, <1>6, <2>1, <2>3 DEF AppendMessages, Saving
    <3> QED
      BY <1>2, <1>3, <3>1, <3>2
  <2> QED
    BY <2>1, <2>2, <2>3
<1>7. ASSUME NEW t \in Turns, GetFullSession(t) \/ UpdateSummary(t), saving[t].sess # s PROVE Good(s)'
  <2>1. /\ \A x \in Turns \ {t} : saving'[x] = saving[x]
        /\ saving'[t].sess = saving[t].sess
    BY <1>1, <1>4, <1>7 DEF GetFullSession, UpdateSummary, Saving
  <2>2. \A x \in Turns : /\ x \in Summarizing(s)' <=> x \in Summarizing(s)
                         /\ x \in Summarizing(s) => saving'[x] = saving[x]
    BY <1>7, <2>1 DEF Summarizing
  <2>3. session'[s] = session[s] /\ (s \in muddled' <=> s \in muddled)
    BY <1>1, <1>7 DEF GetFullSession, UpdateSummary
  <2> QED
    BY <1>2, <1>3, <2>2, <2>3
<1>8. ASSUME NEW t \in Turns, GetFullSession(t), saving[t].sess = s PROVE Good(s)'
  <2>1. t \in Summarizing(s) /\ session' = session
    BY <1>8 DEF GetFullSession, Summarizing
  <2>2. /\ saving' = [saving EXCEPT ![t].pc = "summarize", ![t].seen = Summarized(session[s].turns)]
        /\ s \notin muddled
    BY <1>2, <1>8, <2>1 DEF GetFullSession, Existing
  <2>3. \A x \in Summarizing(s) : x = t
    BY <1>2, <2>1, <2>2 DEF SummaryInv
  <2>4. /\ saving'[t].sess = s /\ saving'[t].pc = "summarize"
        /\ saving'[t].seen = TurnsOf(session[s].turns)
        /\ \A x \in Turns \ {t} : saving'[x] = saving[x]
    BY <1>1, <1>8, <2>2 DEF Saving, Summarized
  <2>5. Summarizing(s)' = {t}
    BY <2>3, <2>4 DEF Summarizing
  <2> QED
    BY <2>1, <2>4, <2>5
<1>9. ASSUME NEW t \in Turns, UpdateSummary(t), saving[t].sess = s PROVE Good(s)'
  <2>1. t \in Summarizing(s) /\ saving' = Done(t) /\ saving[t].pc = "summarize"
    BY <1>9 DEF UpdateSummary, Summarizing
  <2>2. session[s] # None
    BY <1>2, <1>9 DEF UpdateSummary, Owns
  <2>3. session' = [session EXCEPT ![s].summary = saving[t].seen] /\ s \notin muddled
    BY <1>2, <1>9, <2>2 DEF UpdateSummary, Existing
  <2>4. (\A x \in Summarizing(s) : x = t) /\ saving[t].seen = TurnsOf(session[s].turns)
    BY <2>1, <2>2, <2>3 DEF SummaryInv
  <2>5. Summarizing(s)' = {}
    BY <1>4, <2>1, <2>4 DEF Summarizing
  <2>6. session'[s].summary = saving[t].seen /\ session'[s].turns = session[s].turns
    BY <1>1, <2>2, <2>3 DEF Session
  <2> QED
    BY <2>4, <2>5, <2>6
<1>10. ASSUME NEW u \in Users, NEW i \in SessionIds, SessionSave(u, i) \/ SessionDelete(u, i)
       PROVE  Good(s)'
  <2>1. saving' = saving
    BY <1>10 DEF SessionSave, Save, SessionDelete, DeleteSession
  <2>2. i # s /\ session'[s] = session[s] /\ s \notin muddled
    BY <1>1, <1>2, <1>10 DEF SessionSave, Save, SessionDelete, DeleteSession
  <2> QED
    BY <1>3, <2>1, <2>2 DEF Summarizing
<1>11. ASSUME NEW t \in Turns, NEW u \in Users, NEW i \in SessionIds, Ask(t, u, i) PROVE Good(s)'
  <2>1. /\ \A x \in Turns \ {t} : saving'[x] = saving[x]
        /\ saving[t].pc = "new" /\ saving'[t].pc = "run" /\ UNCHANGED <<session, muddled>>
    BY <1>1, <1>11 DEF Ask, NewTurn
  <2> QED
    BY <1>2, <1>3, <2>1 DEF Summarizing
<1>12. ASSUME NEW t \in Turns, Answer(t) PROVE Good(s)'
  <2>1. /\ \A x \in Turns \ {t} : saving'[x] = saving[x]
        /\ saving[t].pc = "run" /\ saving'[t].pc \in {"ensure", "done"} /\ UNCHANGED <<session, muddled>>
    BY <1>1, <1>12 DEF Answer, Saving
  <2> QED
    BY <1>2, <1>3, <2>1 DEF Summarizing
<1>13. CASE Restart
  <2>1. /\ session' = session /\ s \notin muddled /\ Summarizing(s) = {}
        /\ \A m \in Turns : saving'[m] = IF m \in Asked THEN Done(m)[m] ELSE NewTurn
    BY <1>2, <1>13 DEF Restart, Existing
  <2>2. NewTurn.pc = "new" /\ \A m \in Turns : Done(m)[m].pc = "done"
    BY <1>1 DEF Done, NewTurn, Saving
  <2>3. \A m \in Turns : saving'[m].pc \in {"new", "done"}
    BY <2>1, <2>2
  <2>4. Summarizing(s)' = {}
    BY <2>3 DEF Summarizing
  <2> QED
    BY <1>2, <2>1, <2>4 DEF SummaryInv
<1>14. CASE UNCHANGED sessionVars
  BY <1>2, <1>3, <1>14 DEF sessionVars, Summarizing
<1> QED
  BY <1>5, <1>6, <1>7, <1>8, <1>9, <1>10, <1>11, <1>12, <1>13, <1>14
     DEF Next, vars, SaveStep, DeleteBySession
-----------------------------------------------------------------------------
(* What the steps do to the memories.                                      *)

\* Nothing to rows, vectors or requests for vectors, and no row is locked.
Calm ==
  /\ UNCHANGED <<row, vector, drifted>>
  /\ \A t \in Turns : /\ Requests(t)' = Requests(t)
                      /\ Written(t) => Written(t)'
                      /\ learning'[t].pc = "locked" => learning'[t] = learning[t]
  /\ ToDelete' = ToDelete

\* Rows that nobody has locked go; their vectors are to follow.
Deletes(ids) ==
  /\ ids \subseteq Turns
  /\ \A m \in ids : row[m] # None /\ ~ Locked(m)
  /\ row' = [m \in Turns |-> IF m \in ids THEN None ELSE row[m]]
  /\ cleaner.pc # "vectors" /\ cleaner'.pc = "vectors" /\ cleaner'.ids = ids
  /\ drifted' = (drifted \ ids) \cup (ids \cap Held)
  /\ UNCHANGED <<vector, learning>>

LEMMA HeldIds ==
  /\ \A m : m \in Held <=> m \in ToDelete \/ \E t \in Turns : \E next \in Requests(t) : next.id = m
  /\ \A m : m \in Held' <=> m \in ToDelete' \/ \E t \in Turns : \E next \in Requests(t)' : next.id = m
<1>1. \A t \in Turns : ToWrite(t) = {next.id : next \in Requests(t)}
  BY DEF ToWrite, Requests
<1>2. \A t \in Turns : ToWrite(t)' = {next.id : next \in Requests(t)'}
  BY DEF ToWrite, Requests
<1> QED
  BY <1>1, <1>2 DEF Held

\* Requests of the goroutine of t, before and after it writes or stops.
LEMMA NoRequests ==
  ASSUME TypeInv, NEW t \in Turns, learning[t].pc # "sync"
  PROVE  Requests(t) = {}
  BY DEF TypeInv, Requests

LEMMA CalmLearning ==
  ASSUME TypeInv, NEW t \in Turns, NEW x, learning' = [learning EXCEPT ![t] = x],
         learning[t].pc # "sync", x.pc # "locked", x.todo = << >>, Written(t) => x.pc = "done"
  PROVE  \A m \in Turns : /\ Requests(m)' = Requests(m)
                          /\ Written(m) => Written(m)'
                          /\ learning'[m].pc = "locked" => learning'[m] = learning[m]
<1>1. learning'[t] = x /\ \A m \in Turns \ {t} : learning'[m] = learning[m]
  BY DEF TypeInv, TypeOK, MemoryTypeOK
<1>2. ASSUME NEW m \in Turns, m # t
      PROVE  /\ Requests(m)' = Requests(m)
             /\ Written(m) => Written(m)'
             /\ learning'[m].pc = "locked" => learning'[m] = learning[m]
  BY <1>1, <1>2 DEF Requests, Written
<1>3. Requests(t)' = {} /\ Requests(t) = {}
  <2>1. learning'[t].todo = << >>
    BY <1>1
  <2>2. Requests(t)' = {}
    BY <2>1 DEF Requests
  <2> QED
    BY <2>2, NoRequests
<1>4. (Written(t) => Written(t)') /\ learning'[t].pc # "locked"
  BY <1>1 DEF Written
<1> QED
  BY <1>2, <1>3, <1>4

LEMMA StillCalm ==
  ASSUME UNCHANGED <<row, vector, drifted, learning>>, ToDelete' = ToDelete
  PROVE  Calm
  BY DEF Calm, Requests, Written

LEMMA LearnedCalm ==
  ASSUME TypeInv, NEW t \in Turns,
         Answer(t) \/ WriteAgain(t) \/ WriteFails(t)
  PROVE  Calm
<1>1. learning[t] \in Learning /\ DOMAIN learning = Turns
  BY DEF TypeInv, TypeOK, MemoryTypeOK
<1>2. Learnt.pc = "done" /\ Learnt.todo = << >>
  BY DEF Learnt, Unlearnt
<1>3. UNCHANGED <<row, vector, drifted, cleaner>>
  BY DEF Answer, WriteAgain, WriteFails
<1>4. CASE Answer(t)
  <2>1. learning[t].pc = "new" /\ learning[t].todo = << >>
    BY <1>4 DEF Answer, TypeInv
  <2>2. PICK pc \in {"begin", "done"} : learning' = [learning EXCEPT ![t].pc = pc]
    BY <1>4 DEF Answer
  <2>3. PICK x : x = [learning[t] EXCEPT !.pc = pc]
    OBVIOUS
  <2>4. x.pc = pc /\ x.todo = << >> /\ learning' = [learning EXCEPT ![t] = x]
    BY <1>1, <2>1, <2>2, <2>3 DEF Learning
  <2> QED
    BY <1>3, <2>1, <2>4, CalmLearning DEF Calm, ToDelete, Written
<1>5. CASE WriteAgain(t)
  <2>1. learning[t].pc = "locked" /\ learning[t].todo = << >>
    BY <1>5 DEF WriteAgain, TypeInv
  <2>2. PICK x : x = IF learning[t].again THEN Learnt
                     ELSE [learning[t] EXCEPT !.pc = "begin", !.active = None, !.again = TRUE]
    OBVIOUS
  <2>3. learning' = [learning EXCEPT ![t] = x]
    BY <1>5, <2>2 DEF WriteAgain
  <2>4. x.pc \in {"begin", "done"} /\ x.todo = << >>
    BY <1>1, <1>2, <2>1, <2>2 DEF Learning
  <2> QED
    BY <1>3, <2>1, <2>3, <2>4, CalmLearning DEF Calm, ToDelete, Written
<1>6. CASE WriteFails(t)
  <2>1. learning[t].pc \in {"begin", "locked"} /\ learning' = [learning EXCEPT ![t] = Learnt]
    BY <1>6 DEF WriteFails, AfterFailure
  <2>2. PICK x : x = Learnt
    OBVIOUS
  <2> QED
    BY <1>2, <1>3, <2>1, <2>2, CalmLearning DEF Calm, ToDelete, Written
<1> QED
  BY <1>4, <1>5, <1>6

LEMMA MemorySteps ==
  ASSUME TypeInv, [Next]_vars
  PROVE  \/ Calm
         \/ \E t \in Turns : GetActiveFact(t) \/ WriteTransaction(t) \/ SyncVector(t)
         \/ \E ids : Deletes(ids)
         \/ DeleteVectors
         \/ Restart
<1>1. ASSUME NEW t \in Turns, NEW u \in Users, NEW s \in SessionIds, Ask(t, u, s) PROVE Calm
  BY <1>1, StillCalm DEF Ask, ToDelete, memoryVars
<1>2. ASSUME NEW u \in Users, NEW s \in SessionIds, SessionSave(u, s) \/ SessionDelete(u, s)
      PROVE  Calm
  <2>1. CASE SessionSave(u, s)
    BY <2>1, StillCalm DEF SessionSave, ToDelete, memoryVars
  <2>2. CASE SessionDelete(u, s)
    <3>1. cleaner.pc = "idle" /\ cleaner'.pc = "memories"
      BY <2>2 DEF SessionDelete, Resting
    <3> QED
      BY <2>2, <3>1, StillCalm DEF SessionDelete, ToDelete
  <2> QED
    BY <1>2, <2>1, <2>2
<1>3. ASSUME NEW u \in Users, DeleteMemories(u) PROVE \E ids : Deletes(ids)
  <2>1. PICK ids \in {{m} : m \in OfUser(u)} \cup {OfUser(u)} : DeleteRows(ids, [Resting EXCEPT !.user = u])
    BY <1>3 DEF DeleteMemories
  <2>2. ids \subseteq Turns /\ \A m \in ids : row[m] # None
    BY DEF OfUser
  <2>3. cleaner' = [[Resting EXCEPT !.user = u] EXCEPT !.pc = "vectors", !.ids = ids]
    BY <2>1 DEF DeleteRows
  <2>4. cleaner'.pc = "vectors" /\ cleaner'.ids = ids
    BY <2>3 DEF Resting
  <2> QED
    BY <1>3, <2>1, <2>2, <2>4 DEF DeleteMemories, DeleteRows, Deletes
<1>4. ASSUME DeleteBySession PROVE Calm \/ \E ids : Deletes(ids)
  <2>1. cleaner.pc = "memories" /\ cleaner \in Cleaner /\ UNCHANGED <<vector, learning>>
    BY <1>4 DEF DeleteBySession, TypeInv, TypeOK, MemoryTypeOK
  <2>2. CASE DeleteRows(OfSession(cleaner.user, cleaner.sess), cleaner)
    <3>1. PICK ids : ids = OfSession(cleaner.user, cleaner.sess)
      OBVIOUS
    <3>2. ids \subseteq Turns /\ \A m \in ids : row[m] # None
      BY <3>1 DEF OfSession
    <3>3. cleaner'.pc = "vectors" /\ cleaner'.ids = ids
      BY <2>1, <2>2, <3>1 DEF DeleteRows, Cleaner
    <3>4. Deletes(ids)
      BY <2>1, <2>2, <3>1, <3>2, <3>3 DEF DeleteRows, Deletes
    <3> QED
      BY <3>4
  <2>3. CASE cleaner' = Resting /\ UNCHANGED <<row, drifted>>
    BY <2>1, <2>3, StillCalm DEF ToDelete, Resting
  <2> QED
    BY <1>4, <2>2, <2>3 DEF DeleteBySession
<1>5. ASSUME UNCHANGED <<row, vector, drifted, learning, cleaner>> PROVE Calm
  BY <1>5, StillCalm DEF ToDelete
<1>6. CASE RecallStep
  BY <1>5, <1>6 DEF RecallStep, Search, LoadRecall, EndRecall
<1>7. CASE UNCHANGED memoryVars
  BY <1>5, <1>7 DEF memoryVars
<1> QED
  BY <1>1, <1>2, <1>3, <1>4, <1>6, <1>7, LearnedCalm DEF Next, LearnStep, vars
-----------------------------------------------------------------------------
(* What a transaction and a request do.                                    *)

\* A transaction writes rows and leaves requests for each of them, or lets
\* them drift.
LEMMA Writes ==
  ASSUME TypeInv, RowInv, NEW t \in Turns, WriteTransaction(t)
  PROVE  \E todo :
           /\ Stores(t, todo) \/ Refreshes(t, todo) \/ Rejects(t, todo) \/ Replaces(t, todo)
           /\ \A m \in Turns \ {t} : learning'[m] = learning[m] /\ Requests(m)' = Requests(m)
           /\ Requests(t) = {} /\ ~ Written(t) /\ Written(t)' /\ learning'[t].pc # "locked"
           /\ \/ /\ Requests(t)' = {todo[i] : i \in DOMAIN todo}
                 /\ drifted' = (drifted \ Ids(todo)) \cup (Ids(todo) \cap Held)
              \/ Requests(t)' = {} /\ drifted' = drifted \cup Ids(todo)
<1>1. learning[t].pc = "locked" /\ DOMAIN learning = Turns
  BY Outcomes DEF TypeInv, TypeOK, MemoryTypeOK
<1>2. Requests(t) = {} /\ ~ Written(t)
  BY <1>1, NoRequests DEF Written
<1>3. PICK todo : /\ Stores(t, todo) \/ Refreshes(t, todo) \/ Rejects(t, todo) \/ Replaces(t, todo)
                  /\ Commits(t, todo)
  BY Outcomes
<1>4. \A m \in Turns \ {t} : learning'[m] = learning[m] /\ Requests(m)' = Requests(m)
  BY <1>1, <1>3 DEF Commits, Requests
<1>5. CASE /\ learning' = [learning EXCEPT ![t] = [Learnt EXCEPT !.pc = "sync", !.todo = todo]]
           /\ drifted' = (drifted \ Ids(todo)) \cup (Ids(todo) \cap Held)
  <2>1. learning'[t] = [Learnt EXCEPT !.pc = "sync", !.todo = todo]
    BY <1>1, <1>5
  <2>2. learning'[t].pc = "sync" /\ learning'[t].todo = todo
    BY <2>1 DEF Learnt, Unlearnt
  <2>3. Requests(t)' = {todo[i] : i \in DOMAIN todo}
    BY <2>2 DEF Requests
  <2> QED
    BY <1>2, <1>3, <1>4, <1>5, <2>2, <2>3 DEF Written
<1>6. CASE learning' = [learning EXCEPT ![t] = Learnt] /\ drifted' = drifted \cup Ids(todo)
  <2>1. learning'[t] = Learnt
    BY <1>1, <1>6
  <2>2. learning'[t].pc = "done" /\ learning'[t].todo = << >>
    BY <2>1 DEF Learnt, Unlearnt
  <2>3. Requests(t)' = {}
    BY <2>2 DEF Requests
  <2> QED
    BY <1>2, <1>3, <1>4, <1>6, <2>2, <2>3 DEF Written
<1> QED
  BY <1>3, <1>5, <1>6 DEF Commits

\* The rows a transaction writes, and the requests that go with them.
LEMMA WrittenRows ==
  ASSUME TypeInv, RowInv, NEW t \in Turns, WriteTransaction(t), NEW todo,
         Stores(t, todo) \/ Refreshes(t, todo) \/ Rejects(t, todo) \/ Replaces(t, todo)
  PROVE  /\ Ids(todo) \subseteq {t, learning[t].active} \ {None}
         /\ \A i \in DOMAIN todo :
              /\ row'[todo[i].id] # None /\ row'[todo[i].id].status = todo[i].status
              /\ todo[i].id \in Ids(todo)
<1>1. /\ Lesson(t) /\ row \in [Turns -> Row \cup {None}]
      /\ learning[t].active # None => /\ learning[t].active \in Turns \ {t}
                                      /\ Old(t) \in Row /\ Old(t).status = "active"
  BY Outcomes DEF TypeInv, TypeOK, MemoryTypeOK
<1>2. Rec(t) \in Row /\ Rec(t).status = "active"
  BY <1>1 DEF Lesson, Rec
<1>3. \A i \in DOMAIN todo : todo[i].id \in Ids(todo)
  BY DEF Ids
<1>4. CASE Stores(t, todo)
  <2>1. Ids(todo) = {t} /\ \A i \in DOMAIN todo : todo[i] = [id |-> t, status |-> "active"]
    BY <1>4 DEF Stores, Ids
  <2>2. row'[t] = Rec(t) /\ row'[t] # None
    BY <1>1, <1>2, <1>4, NoRowAssumption DEF Stores
  <2> QED
    BY <1>2, <1>3, <2>1, <2>2, TurnsAssumption
<1>5. CASE Refreshes(t, todo)
  <2>1. /\ Ids(todo) = {learning[t].active} /\ learning[t].active # None
        /\ \A i \in DOMAIN todo : todo[i] = [id |-> learning[t].active, status |-> "active"]
    BY <1>5 DEF Refreshes, Ids
  <2>2. Refreshed(Old(t), Rec(t)) \in Row /\ Refreshed(Old(t), Rec(t)).status = "active"
    BY <1>1, <1>2, <2>1 DEF Refreshed, Row
  <2>3. row'[learning[t].active] = Refreshed(Old(t), Rec(t))
    BY <1>1, <1>5, <2>1 DEF Refreshes
  <2>4. row'[learning[t].active] # None /\ row'[learning[t].active].status = "active"
    BY <2>2, <2>3, NoRowAssumption
  <2> QED
    BY <1>3, <2>1, <2>4
<1>6. CASE Rejects(t, todo)
  <2>1. Ids(todo) = {t} /\ \A i \in DOMAIN todo : todo[i] = [id |-> t, status |-> "superseded"]
    BY <1>6 DEF Rejects, Ids
  <2>2. PICK r : r = [Rec(t) EXCEPT !.status = "superseded", !.by = learning[t].active]
    OBVIOUS
  <2>3. r \in Row /\ r.status = "superseded"
    BY <1>1, <1>2, <1>6, <2>2 DEF Rejects, Row, RowStatus
  <2>4. row'[t] = r /\ row'[t] # None
    BY <1>1, <1>6, <2>2, <2>3, NoRowAssumption DEF Rejects
  <2> QED
    BY <1>3, <2>1, <2>3, <2>4, TurnsAssumption
<1>7. CASE Replaces(t, todo)
  <2>1. /\ Ids(todo) = {learning[t].active, t} /\ learning[t].active # None
        /\ \A i \in DOMAIN todo : \/ todo[i] = [id |-> learning[t].active, status |-> "superseded"]
                                  \/ todo[i] = [id |-> t, status |-> "active"]
    BY <1>7 DEF Replaces, Ids
  <2>2. PICK r : r = [Old(t) EXCEPT !.status = "superseded", !.by = t]
    OBVIOUS
  <2>3. r \in Row /\ r.status = "superseded"
    BY <1>1, <2>1, <2>2 DEF Row, RowStatus
  <2>4. /\ row'[t] = Rec(t) /\ row'[learning[t].active] = r
    BY <1>1, <1>7, <2>1, <2>2 DEF Replaces
  <2>5. row'[t] # None /\ row'[learning[t].active] # None
    BY <1>2, <2>3, <2>4, NoRowAssumption
  <2> QED
    BY <1>2, <1>3, <2>1, <2>3, <2>4, <2>5, TurnsAssumption
<1> QED
  BY <1>4, <1>5, <1>6, <1>7

\* A request that is carried out is no longer there.
LEMMA Syncs ==
  ASSUME TypeInv, NEW t \in Turns, SyncVector(t)
  PROVE  \E next \in Requests(t) :
           /\ next.id \in Turns
           /\ \/ vector' = [vector EXCEPT ![next.id] = next.status] /\ UNCHANGED drifted
              \/ /\ vector' \in {vector, [vector EXCEPT ![next.id] = next.status]}
                 /\ drifted' = drifted \cup {next.id}
           /\ Requests(t)' \subseteq Requests(t) /\ Requests(t) \subseteq Requests(t)' \cup {next}
           /\ \A m \in Turns \ {t} : learning'[m] = learning[m] /\ Requests(m)' = Requests(m)
           /\ Written(t) /\ Written(t)' /\ learning'[t].pc # "locked"
           /\ UNCHANGED <<row, cleaner, recall>>
<1>1. /\ learning[t] \in Learning /\ Len(learning[t].todo) <= 2 /\ DOMAIN learning = Turns
      /\ learning[t].pc = "sync" /\ learning[t].todo # << >>
  BY DEF SyncVector, TypeInv, TypeOK, MemoryTypeOK
<1>2. PICK q : q = learning[t].todo
  OBVIOUS
<1>3. q \in Seq(Sync) /\ q # << >> /\ Len(q) <= 2
  BY <1>1, <1>2 DEF Learning
<1>4. PICK next : next = Head(q)
  OBVIOUS
<1>5. next = q[1] /\ 1 \in DOMAIN q /\ next \in Sync
  BY <1>3, <1>4
<1>6. next \in Requests(t) /\ next.id \in Turns
  BY <1>2, <1>5 DEF Requests, Sync
<1>7. \/ vector' = [vector EXCEPT ![next.id] = next.status] /\ UNCHANGED drifted
      \/ /\ vector' \in {vector, [vector EXCEPT ![next.id] = next.status]}
         /\ drifted' = drifted \cup {next.id}
  BY <1>2, <1>4 DEF SyncVector
<1>8. PICK x : x = Continued(learning[t])
  OBVIOUS
<1>9. learning'[t] = x /\ \A m \in Turns \ {t} : learning'[m] = learning[m]
  BY <1>1, <1>8 DEF SyncVector
<1>10. /\ x.pc \in {"sync", "done"}
       /\ {x.todo[i] : i \in DOMAIN x.todo} \subseteq {q[i] : i \in DOMAIN q}
       /\ {q[i] : i \in DOMAIN q} \subseteq {x.todo[i] : i \in DOMAIN x.todo} \cup {next}
  <2>1. CASE Len(q) = 1
    <3>1. x = Learnt
      BY <1>2, <1>8, <2>1 DEF Continued
    <3>2. x.pc = "done" /\ x.todo = << >>
      BY <3>1 DEF Learnt, Unlearnt
    <3>3. \A i \in DOMAIN q : i = 1
      BY <1>3, <2>1
    <3> QED
      BY <1>5, <3>2, <3>3
  <2>2. CASE Len(q) # 1
    <3>1. Tail(q) \in Seq(Sync) /\ Len(Tail(q)) = 1
      BY <1>3, <2>2, TailOfTwo
    <3>2. x.pc = "sync" /\ x.todo = Tail(q)
      BY <1>1, <1>2, <1>8, <2>2 DEF Continued, Learning
    <3>3. /\ Tail(q)[1] = q[2] /\ DOMAIN q = {1, 2} /\ DOMAIN Tail(q) = {1}
      BY <1>3, <2>2, TailOfTwo
    <3> QED
      BY <1>5, <3>2, <3>3
  <2> QED
    BY <2>1, <2>2
<1>11. Requests(t)' = {x.todo[i] : i \in DOMAIN x.todo} /\ Requests(t) = {q[i] : i \in DOMAIN q}
  BY <1>2, <1>9 DEF Requests
<1>12. \A m \in Turns \ {t} : Requests(m)' = Requests(m)
  BY <1>9 DEF Requests
<1>13. Written(t) /\ Written(t)' /\ learning'[t].pc # "locked"
  BY <1>1, <1>9, <1>10 DEF Written
<1>14. UNCHANGED <<row, cleaner, recall>>
  BY DEF SyncVector
<1> QED
  BY <1>6, <1>7, <1>9, <1>10, <1>11, <1>12, <1>13, <1>14
-----------------------------------------------------------------------------
(* Rows.                                                                   *)

LEMMA RowStart == ASSUME Init PROVE RowInv
<1>1. \A t \in Turns : learning[t] = Unlearnt /\ row[t] = None /\ vector[t] = "none"
  BY DEF Init, MemoryInit
<1>2. Unlearnt.pc = "new" /\ Unlearnt.todo = << >>
  BY DEF Unlearnt
<1>3. \A t \in Turns : Requests(t) = {}
  BY <1>1, <1>2 DEF Requests
<1>4. ToDelete = {} /\ drifted = {}
  BY DEF Init, MemoryInit, ToDelete, Resting
<1>5. Held = {}
  BY <1>3, <1>4, HeldIds
<1> QED
  BY <1>1, <1>2, <1>4, <1>5 DEF RowInv, ReplacedByStronger, Active, Written

\* Records not written yet are untouched by a step.
Untouched ==
  \A m \in Turns : ~ Written(m)' =>
    ~ Written(m) /\ vector'[m] = vector[m] /\ m \notin Held' \cup drifted'

LEMMA RowFrame ==
  ASSUME TypeInv, RowInv, row' = row, Untouched,
         \A t \in Turns : learning'[t].pc = "locked" => learning'[t] = learning[t]
  PROVE  RowInv'
<1>1. \A m \in Turns : ~ Written(m)' => /\ row'[m] = None /\ vector'[m] = "none"
                                        /\ m \notin Held' \cup drifted'
  BY DEF Untouched, RowInv
<1>2. ReplacedByStronger'
  BY DEF RowInv, ReplacedByStronger, Active
<1>3. \A m \in Turns : row'[m] # None /\ row'[m].status = "superseded" =>
        row'[m].by \in Turns /\ Written(row[m].by)'
  BY DEF RowInv, Untouched
<1>4. \A t \in Turns : learning'[t].pc = "locked" /\ learning'[t].active # None =>
        LET old == row'[learning'[t].active] IN
          /\ old # None /\ old.status = "active"
          /\ old.user = learning'[t].rec.user /\ old.fact = learning'[t].rec.fact
  BY DEF RowInv, Active
<1>5. \A t, x \in Turns :
        /\ learning'[t].pc = "locked" /\ learning'[x].pc = "locked"
        /\ learning'[t].active = learning'[x].active /\ learning'[t].active # None
        => t = x
  BY DEF RowInv
<1> QED
  BY <1>1, <1>2, <1>3, <1>4, <1>5 DEF RowInv, Active

LEMMA HeldFrame ==
  ASSUME NEW ids,
         ToDelete' \subseteq ToDelete \cup ids,
         \A t \in Turns : \A next \in Requests(t)' : next \in Requests(t) \/ next.id \in ids
  PROVE  Held' \subseteq Held \cup ids
  BY HeldIds

LEMMA HeldStays ==
  ASSUME ToDelete' = ToDelete, \A t \in Turns : Requests(t)' = Requests(t)
  PROVE  Held' = Held
<1>1. \A m : m \in Held' <=> m \in Held
  BY HeldIds
<1> QED
  BY <1>1

\* The row that is found is locked.
LEMMA LockRow ==
  ASSUME TypeInv, RowInv, NEW t \in Turns, GetActiveFact(t)
  PROVE  RowInv'
<1>1. PICK rec \in Extracted(t) :
        /\ \A m \in ActiveFact(rec.user, rec.fact) : ~ Locked(m)
        /\ \E m \in {None} \cup ActiveFact(rec.user, rec.fact) :
             learning' = [learning EXCEPT ![t] = [@ EXCEPT !.pc = "locked", !.rec = rec, !.active = m]]
  BY DEF GetActiveFact
<1>2. PICK m \in {None} \cup ActiveFact(rec.user, rec.fact) :
        learning' = [learning EXCEPT ![t] = [@ EXCEPT !.pc = "locked", !.rec = rec, !.active = m]]
  BY <1>1
<1>3. PICK x : x = [learning[t] EXCEPT !.pc = "locked", !.rec = rec, !.active = m]
  OBVIOUS
<1>4. /\ learning[t] \in Learning /\ DOMAIN learning = Turns
      /\ learning[t].pc = "begin" /\ UNCHANGED <<row, vector, cleaner, recall, drifted>>
  BY DEF GetActiveFact, TypeInv, TypeOK, MemoryTypeOK
<1>5. learning'[t] = x /\ \A k \in Turns \ {t} : learning'[k] = learning[k]
  BY <1>2, <1>3, <1>4
<1>6. x.pc = "locked" /\ x.rec = rec /\ x.active = m /\ x.todo = learning[t].todo
  BY <1>3, <1>4 DEF Learning
<1>7. \A k \in Turns : Requests(k)' = Requests(k) /\ (Written(k)' <=> Written(k))
  BY <1>4, <1>5, <1>6 DEF Requests, Written
<1>8. Held' = Held
  BY <1>4, <1>7, HeldStays DEF ToDelete
<1>9. m # None => /\ m \in Turns /\ Active(m) /\ row[m].user = rec.user /\ row[m].fact = rec.fact
                  /\ \A k \in Turns : ~ (learning[k].pc = "locked" /\ learning[k].active = m)
  BY <1>1 DEF ActiveFact, Locked
<1>10. \A k \in Turns : ~ Written(k)' => /\ row'[k] = None /\ vector'[k] = "none"
                                         /\ k \notin Held' \cup drifted'
  BY <1>4, <1>7, <1>8 DEF RowInv
<1>11. ReplacedByStronger'
  BY <1>4 DEF RowInv, ReplacedByStronger, Active
<1>12. \A k \in Turns : row'[k] # None /\ row'[k].status = "superseded" =>
         row'[k].by \in Turns /\ Written(row[k].by)'
  BY <1>4, <1>7 DEF RowInv
<1>13. ASSUME NEW k \in Turns, learning'[k].pc = "locked", learning'[k].active # None
       PROVE  LET old == row'[learning'[k].active] IN
                /\ old # None /\ old.status = "active"
                /\ old.user = learning'[k].rec.user /\ old.fact = learning'[k].rec.fact
  <2>1. CASE k = t
    BY <1>4, <1>5, <1>6, <1>9, <1>13, <2>1 DEF Active
  <2>2. CASE k # t
    BY <1>4, <1>5, <1>13, <2>2 DEF RowInv, Active
  <2> QED
    BY <2>1, <2>2
<1>14. ASSUME NEW k \in Turns, NEW j \in Turns,
              learning'[k].pc = "locked", learning'[j].pc = "locked",
              learning'[k].active = learning'[j].active, learning'[k].active # None
       PROVE  k = j
  BY <1>5, <1>6, <1>9, <1>14 DEF RowInv
<1> QED
  BY <1>4, <1>10, <1>11, <1>12, <1>13, <1>14 DEF RowInv, Active

\* A transaction writes the record of its turn, or changes the row it locked.
LEMMA WriteRow ==
  ASSUME TypeInv, RowInv, NEW t \in Turns, WriteTransaction(t)
  PROVE  RowInv' /\ \A m \in Turns : Written(m) => Written(m)'
<1> DEFINE After(m) == learning'[m].pc \in {"sync", "done"}
<1>1. PICK todo :
        /\ Stores(t, todo) \/ Refreshes(t, todo) \/ Rejects(t, todo) \/ Replaces(t, todo)
        /\ \A m \in Turns \ {t} : learning'[m] = learning[m] /\ Requests(m)' = Requests(m)
        /\ Requests(t) = {} /\ ~ Written(t) /\ Written(t)' /\ learning'[t].pc # "locked"
        /\ \/ /\ Requests(t)' = {todo[i] : i \in DOMAIN todo}
              /\ drifted' = (drifted \ Ids(todo)) \cup (Ids(todo) \cap Held)
           \/ Requests(t)' = {} /\ drifted' = drifted \cup Ids(todo)
  BY Writes
<1>2. PICK a : a = learning[t].active
  OBVIOUS
<1>3. PICK rec : rec = Rec(t)
  OBVIOUS
<1>4. /\ learning[t].pc = "locked" /\ rec \in Row /\ rec.status = "active" /\ row[t] = None
      /\ UNCHANGED <<vector, cleaner, recall>> /\ row \in [Turns -> Row \cup {None}]
      /\ a # None => /\ a \in Turns \ {t} /\ row[a] \in Row /\ row[a].status = "active"
                     /\ row[a].user = rec.user /\ row[a].fact = rec.fact
  BY <1>2, <1>3, Outcomes DEF Lesson, Rec, Old, TypeInv, TypeOK, MemoryTypeOK
<1>5. /\ Ids(todo) \subseteq {t, a} \ {None}
      /\ \A i \in DOMAIN todo : todo[i].id \in Ids(todo)
  BY <1>1, <1>2, WrittenRows
<1>6. a # None => Written(a)
  BY <1>4, NoRowAssumption DEF RowInv
<1>7. \A m \in Turns : Written(m) => Written(m)'
  BY <1>1 DEF Written
<1>8. Held' \subseteq Held \cup Ids(todo)
  <2>1. ToDelete' = ToDelete
    BY <1>4 DEF ToDelete
  <2>2. \A m \in Turns : \A next \in Requests(m)' : next \in Requests(m) \/ next.id \in Ids(todo)
    BY <1>1, <1>5
  <2> QED
    BY <2>1, <2>2, HeldFrame
<1>9. ASSUME NEW m \in Turns, ~ Written(m)'
      PROVE  /\ m \notin {t, a} /\ row[m] = None /\ vector'[m] = "none"
             /\ m \notin Held' \cup drifted'
  <2>1. m # t /\ ~ Written(m)
    BY <1>1, <1>7, <1>9
  <2>2. m # a \/ a = None
    BY <1>6, <2>1
  <2>3. m # a
    BY <2>2, TurnsAssumption
  <2>4. m \notin Held \cup drifted /\ row[m] = None /\ vector[m] = "none"
    BY <2>1 DEF RowInv
  <2> QED
    BY <1>1, <1>4, <1>5, <1>8, <2>1, <2>3, <2>4
<1>10. \A m \in Turns : row[m] # None /\ row[m].status = "superseded" =>
         /\ row[m].by \in Turns \ {t} /\ After(row[m].by)
         /\ row[row[m].by] # None =>
              /\ row[row[m].by].user = row[m].user /\ row[row[m].by].fact = row[m].fact
              /\ row[row[m].by].authority >= row[m].authority
  <2>1. \A m \in Turns : Written(m) => m # t /\ After(m)
    BY <1>1 DEF Written
  <2>2. \A m \in Turns : row[m] # None /\ row[m].status = "superseded" =>
          row[m].by \in Turns /\ Written(row[m].by)
    BY DEF RowInv
  <2>3. \A m \in Turns : row[m] # None /\ row[m].status = "superseded" /\ row[row[m].by] # None =>
          /\ row[row[m].by].user = row[m].user /\ row[row[m].by].fact = row[m].fact
          /\ row[row[m].by].authority >= row[m].authority
    BY DEF RowInv, ReplacedByStronger
  <2> QED
    BY <2>1, <2>2, <2>3
<1>11. ASSUME NEW x \in Turns, learning'[x].pc = "locked", learning'[x].active # None
       PROVE  /\ x # t /\ learning'[x] = learning[x] /\ learning[x].active \notin {t, a}
              /\ row[learning[x].active] # None /\ row[learning[x].active].status = "active"
              /\ row[learning[x].active].user = learning[x].rec.user
              /\ row[learning[x].active].fact = learning[x].rec.fact
              /\ learning[x].active \in Turns
  <2>1. x # t /\ learning'[x] = learning[x]
    BY <1>1, <1>11
  <2>2. /\ Active(learning[x].active)
        /\ row[learning[x].active].user = learning[x].rec.user
        /\ row[learning[x].active].fact = learning[x].rec.fact
    BY <1>11, <2>1 DEF RowInv
  <2>3. learning[x].active # t
    BY <1>4, <2>2 DEF Active
  <2>4. learning[x].active # a
    BY <1>2, <1>4, <1>11, <2>1 DEF RowInv
  <2>5. learning[x].active \in Turns
    BY <1>11, <2>1 DEF TypeInv, TypeOK, MemoryTypeOK, Learning
  <2> QED
    BY <2>1, <2>2, <2>3, <2>4, <2>5 DEF Active
<1>12. \A m \in Turns : row[m] # None => row[m] \in Row /\ row[m].authority \in Nat
  BY <1>4, AuthorityAssumption DEF Row
<1>13. /\ rec.authority \in Nat /\ rec # None
       /\ a # None => row[a].authority \in Nat /\ row[a] # None
  BY <1>4, AuthorityAssumption, NoRowAssumption DEF Row
\* The rest follows from what the rows are afterwards.
<1>14. ASSUME ReplacedByStronger',
              \A m \in Turns \ {t, a} : row'[m] = row[m],
              \A m \in {t, a} \cap Turns : row'[m] # None /\ row'[m].status = "superseded" =>
                row'[m].by \in Turns /\ After(row'[m].by)
       PROVE  RowInv'
  <2>1. \A m \in Turns : ~ Written(m)' => /\ row'[m] = None /\ vector'[m] = "none"
                                          /\ m \notin Held' \cup drifted'
    BY <1>9, <1>14
  <2>2. \A m \in Turns : row'[m] # None /\ row'[m].status = "superseded" =>
          row'[m].by \in Turns /\ After(row'[m].by)
    BY <1>10, <1>14
  <2>3. \A x \in Turns : learning'[x].pc = "locked" /\ learning'[x].active # None =>
          LET old == row'[learning'[x].active] IN
            /\ old # None /\ old.status = "active"
            /\ old.user = learning'[x].rec.user /\ old.fact = learning'[x].rec.fact
    BY <1>11, <1>14
  <2>4. \A x, y \in Turns :
          /\ learning'[x].pc = "locked" /\ learning'[y].pc = "locked"
          /\ learning'[x].active = learning'[y].active /\ learning'[x].active # None
          => x = y
    BY <1>11 DEF RowInv
  <2> QED
    BY <1>14, <2>1, <2>2, <2>3, <2>4 DEF RowInv, Active, Written
<1>15. CASE Stores(t, todo)
  <2>1. /\ row'[t] = rec /\ a = None /\ \A m \in Turns \ {t} : row'[m] = row[m]
        /\ \A m \in Turns : Active(m) => row[m].user # rec.user \/ row[m].fact # rec.fact
    BY <1>2, <1>3, <1>4, <1>15 DEF Stores, ActiveFact
  <2>2. ReplacedByStronger'
    BY <1>4, <1>10, <2>1 DEF RowInv, ReplacedByStronger, Active
  <2>3. \A m \in {t, a} \cap Turns : row'[m].status # "superseded"
    BY <1>4, <2>1, TurnsAssumption
  <2> QED
    BY <1>7, <1>14, <2>1, <2>2, <2>3
<1>16. CASE Refreshes(t, todo)
  <2>1. PICK new : new = Refreshed(row[a], rec)
    OBVIOUS
  <2>2. /\ row'[a] = new /\ a # None /\ \A m \in Turns \ {a} : row'[m] = row[m]
    BY <1>2, <1>3, <1>4, <1>16, <2>1 DEF Refreshes, Old
  <2>3. /\ new.user = rec.user /\ new.fact = rec.fact /\ new.status = "active"
        /\ new.authority \in Nat /\ new.authority >= row[a].authority
    BY <1>4, <1>13, <2>1, <2>2 DEF Refreshed, Row
  <2>4. ReplacedByStronger'
    <3>1. \A m, n \in Turns : Active(m)' /\ Active(n)' /\ row'[m].user = row'[n].user
                              /\ row'[m].fact = row'[n].fact => m = n
      BY <1>4, <1>13, <2>2, <2>3 DEF RowInv, ReplacedByStronger, Active
    <3>2. ASSUME NEW m \in Turns, row'[m] # None, row'[m].status = "superseded",
                 row'[row'[m].by] # None
          PROVE  LET by == row'[row'[m].by] IN
                   by.user = row'[m].user /\ by.fact = row'[m].fact /\ by.authority >= row'[m].authority
      <4>1. m # a /\ row'[m] = row[m]
        BY <2>2, <2>3, <3>2
      <4>2. CASE row[m].by = a
        <5>1. row'[row'[m].by] = new
          BY <2>2, <4>1, <4>2
        <5>2. /\ row[a].user = row[m].user /\ row[a].fact = row[m].fact
              /\ row[a].authority >= row[m].authority
          BY <1>10, <1>13, <2>2, <3>2, <4>1, <4>2
        <5>3. row[m].authority \in Nat /\ row[a].authority \in Nat
          BY <1>12, <1>13, <2>2, <3>2, <4>1
        <5>4. new.authority >= row[m].authority
          BY <2>3, <5>2, <5>3
        <5> QED
          BY <1>4, <2>2, <2>3, <4>1, <5>1, <5>2, <5>4
      <4>3. CASE row[m].by # a
        BY <1>10, <2>2, <3>2, <4>1, <4>3
      <4> QED
        BY <4>2, <4>3
    <3> QED
      BY <3>1, <3>2 DEF ReplacedByStronger
  <2>5. \A m \in {t, a} \cap Turns : row'[m] # None => row'[m].status # "superseded"
    BY <1>4, <2>2, <2>3
  <2> QED
    BY <1>7, <1>14, <2>2, <2>4, <2>5
<1>17. CASE Rejects(t, todo)
  <2>1. PICK new : new = [rec EXCEPT !.status = "superseded", !.by = a]
    OBVIOUS
  <2>2. /\ row'[t] = new /\ a # None /\ \A m \in Turns \ {t} : row'[m] = row[m]
        /\ rec.authority < row[a].authority
    BY <1>2, <1>3, <1>4, <1>17, <2>1 DEF Rejects, Old, Rec
  <2>3. /\ new.user = rec.user /\ new.fact = rec.fact /\ new.status = "superseded"
        /\ new.by = a /\ new.authority = rec.authority
    BY <1>4, <2>1 DEF Row
  <2>4. ReplacedByStronger'
    <3>1. \A m, n \in Turns : Active(m)' /\ Active(n)' /\ row'[m].user = row'[n].user
                              /\ row'[m].fact = row'[n].fact => m = n
      BY <2>2, <2>3 DEF RowInv, ReplacedByStronger, Active
    <3>2. \A m \in Turns : row'[m] # None /\ row'[m].status = "superseded"
                           /\ row'[row'[m].by] # None =>
            LET by == row'[row'[m].by] IN
              by.user = row'[m].user /\ by.fact = row'[m].fact /\ by.authority >= row'[m].authority
      BY <1>4, <1>10, <1>13, <2>2, <2>3
    <3> QED
      BY <3>1, <3>2 DEF ReplacedByStronger
  <2>5. \A m \in {t, a} \cap Turns : row'[m] # None /\ row'[m].status = "superseded" =>
          row'[m].by = a /\ a \in Turns
    BY <1>4, <2>2, <2>3
  <2>6. After(a)
    BY <1>4, <1>6, <1>7, <2>2 DEF Written
  <2>7. \A m \in {t, a} \cap Turns : row'[m] # None /\ row'[m].status = "superseded" =>
          row'[m].by \in Turns /\ After(row'[m].by)
    BY <2>5, <2>6, Zenon
  <2>8. \A m \in Turns \ {t, a} : row'[m] = row[m]
    BY <2>2
  <2> QED
    BY <1>7, <1>14, <2>4, <2>7, <2>8
<1>18. CASE Replaces(t, todo)
  <2>1. PICK new : new = [row[a] EXCEPT !.status = "superseded", !.by = t]
    OBVIOUS
  <2>2. /\ row'[t] = rec /\ a # None /\ row'[a] = new
        /\ \A m \in Turns \ {t, a} : row'[m] = row[m]
        /\ rec.authority >= row[a].authority
    <3>1. /\ a # None /\ ~ (rec.authority < row[a].authority)
          /\ row' = [row EXCEPT ![t] = rec, ![a] = new]
      BY <1>2, <1>3, <1>18, <2>1 DEF Replaces, Old
    <3>2. row'[t] = rec /\ row'[a] = new /\ \A m \in Turns \ {t, a} : row'[m] = row[m]
      BY <1>4, <3>1
    <3>3. rec.authority \in Nat /\ row[a].authority \in Nat
      BY <1>13, <3>1
    <3>4. rec.authority >= row[a].authority
      BY <3>1, <3>3
    <3> QED
      BY <3>1, <3>2, <3>4
  <2>3. /\ new.user = rec.user /\ new.fact = rec.fact /\ new.status = "superseded"
        /\ new.by = t /\ new.authority = row[a].authority
    BY <1>4, <2>1, <2>2 DEF Row
  <2>4. ReplacedByStronger'
    <3>1. \A m, n \in Turns : Active(m)' /\ Active(n)' /\ row'[m].user = row'[n].user
                              /\ row'[m].fact = row'[n].fact => m = n
      <4>1. \A m \in Turns : Active(m)' => m = t \/ (Active(m) /\ row'[m] = row[m] /\ m # a)
        BY <2>2, <2>3 DEF Active
      <4>2. \A m \in Turns \ {a} : Active(m) => row[m].user # rec.user \/ row[m].fact # rec.fact
        BY <1>4, <1>13, <2>2 DEF RowInv, ReplacedByStronger, Active
      <4> QED
        BY <2>2, <4>1, <4>2 DEF RowInv, ReplacedByStronger
    <3>2. ASSUME NEW m \in Turns, row'[m] # None, row'[m].status = "superseded",
                 row'[row'[m].by] # None
          PROVE  LET by == row'[row'[m].by] IN
                   by.user = row'[m].user /\ by.fact = row'[m].fact /\ by.authority >= row'[m].authority
      <4>1. CASE m = a
        BY <2>2, <2>3, <4>1
      <4>2. CASE m # a
        <5>1. m # t /\ row'[m] = row[m]
          BY <1>4, <2>2, <3>2, <4>2
        <5>2. row[m].by \in Turns \ {t}
          BY <1>10, <3>2, <5>1
        <5>3. CASE row[m].by = a
          BY <1>4, <1>10, <1>13, <2>2, <2>3, <3>2, <5>1, <5>3
        <5>4. CASE row[m].by # a
          BY <1>10, <2>2, <3>2, <5>1, <5>2, <5>4
        <5> QED
          BY <5>3, <5>4
      <4> QED
        BY <4>1, <4>2
    <3> QED
      BY <3>1, <3>2 DEF ReplacedByStronger
  <2>5. \A m \in {t, a} \cap Turns : row'[m] # None /\ row'[m].status = "superseded" => row'[m].by = t
    BY <1>4, <2>2, <2>3
  <2>6. After(t)
    BY <1>1 DEF Written
  <2>7. \A m \in {t, a} \cap Turns : row'[m] # None /\ row'[m].status = "superseded" =>
          row'[m].by \in Turns /\ After(row'[m].by)
    BY <2>5, <2>6, Zenon
  <2>8. \A m \in Turns \ {t, a} : row'[m] = row[m]
    BY <2>2
  <2> QED
    BY <1>7, <1>14, <2>4, <2>7, <2>8
<1> QED
  BY <1>1, <1>15, <1>16, <1>17, <1>18

\* Locked rows are not deleted.
LEMMA DeleteRow ==
  ASSUME TypeInv, RowInv, NEW ids, Deletes(ids)
  PROVE  RowInv'
<1>1. /\ ids \subseteq Turns /\ UNCHANGED <<vector, learning>>
      /\ \A m \in ids : row[m] # None /\ ~ Locked(m)
      /\ \A m \in Turns : row'[m] = IF m \in ids THEN None ELSE row[m]
      /\ drifted' \subseteq drifted \cup ids
  BY DEF Deletes
<1>2. Held' \subseteq Held \cup ids
  <2>1. ToDelete' \subseteq ToDelete \cup ids
    BY DEF Deletes, ToDelete
  <2>2. \A t \in Turns : \A next \in Requests(t)' : next \in Requests(t)
    BY <1>1 DEF Requests
  <2> QED
    BY <2>1, <2>2, HeldFrame
<1>3. \A m \in Turns : ~ Written(m)' => /\ row'[m] = None /\ vector'[m] = "none"
                                        /\ m \notin Held' \cup drifted'
  BY <1>1, <1>2 DEF RowInv, Written
<1>4. \A m \in Turns : row'[m] # None => row'[m] = row[m] /\ row[m] # None
  BY <1>1
<1>5. ReplacedByStronger'
  <2>1. \A m, n \in Turns : Active(m)' /\ Active(n)' /\ row'[m].user = row'[n].user
                            /\ row'[m].fact = row'[n].fact => m = n
    BY <1>4 DEF RowInv, ReplacedByStronger, Active
  <2>2. \A m \in Turns : row'[m] # None /\ row'[m].status = "superseded"
                         /\ row'[row'[m].by] # None =>
          LET by == row'[row'[m].by] IN
            by.user = row'[m].user /\ by.fact = row'[m].fact /\ by.authority >= row'[m].authority
    BY <1>4 DEF RowInv, ReplacedByStronger
  <2> QED
    BY <2>1, <2>2 DEF ReplacedByStronger
<1>6. \A m \in Turns : row'[m] # None /\ row'[m].status = "superseded" =>
        row'[m].by \in Turns /\ learning'[row'[m].by].pc \in {"sync", "done"}
  BY <1>1, <1>4 DEF RowInv, Written
<1>7. ASSUME NEW x \in Turns, learning[x].pc = "locked", learning[x].active # None
      PROVE  LET old == row'[learning[x].active] IN
               /\ old # None /\ old.status = "active"
               /\ old.user = learning[x].rec.user /\ old.fact = learning[x].rec.fact
  <2>1. learning[x].active \in Turns
    BY <1>7 DEF TypeInv, TypeOK, MemoryTypeOK, Learning
  <2>2. learning[x].active \notin ids
    BY <1>1, <1>7 DEF Locked
  <2> QED
    BY <1>1, <1>7, <2>1, <2>2 DEF RowInv, Active
<1> QED
  BY <1>1, <1>3, <1>5, <1>6, <1>7 DEF RowInv, Active, Written

LEMMA RestartRests ==
  ASSUME TypeInv, Restart
  PROVE  /\ \A t \in Turns : /\ Requests(t)' = {} /\ learning'[t].pc \in {"new", "done"}
                             /\ saving'[t].pc \in {"new", "done"}
                             /\ Written(t) => Written(t)'
         /\ ToDelete' = {} /\ Held' = {}
         /\ cleaner'.pc = "idle" /\ recall'.pc = "idle"
<1>1. /\ Learnt.pc = "done" /\ Learnt.todo = << >> /\ Unlearnt.pc = "new" /\ Unlearnt.todo = << >>
      /\ Resting.pc = "idle" /\ NoRecall.pc = "idle" /\ NewTurn.pc = "new"
  BY DEF Learnt, Unlearnt, Resting, NoRecall, NewTurn
<1>2. \A t \in Turns : learning'[t] = IF t \in Asked THEN Learnt ELSE Unlearnt
  BY DEF Restart
<1>3. \A t \in Turns : learning'[t].pc \in {"new", "done"} /\ learning'[t].todo = << >>
  BY <1>1, <1>2
<1>4. \A t \in Turns : Requests(t)' = {}
  BY <1>3 DEF Requests
<1>5. \A t \in Turns : saving'[t].pc \in {"new", "done"}
  <2>1. \A t \in Turns : Done(t)[t].pc = "done"
    BY DEF Done, TypeInv, TypeOK, SessionTypeOK, Saving
  <2>2. \A t \in Turns : saving'[t] = IF t \in Asked THEN Done(t)[t] ELSE NewTurn
    BY DEF Restart
  <2> QED
    BY <1>1, <2>1, <2>2
<1>6. \A t \in Turns : Written(t) => Written(t)'
  <2>1. \A t \in Turns : Written(t) => t \in Asked
    BY DEF Written, Asked, TypeInv
  <2> QED
    BY <1>1, <1>2, <2>1 DEF Written
<1>7. cleaner'.pc = "idle" /\ recall'.pc = "idle" /\ ToDelete' = {}
  BY <1>1 DEF Restart, ToDelete
<1>8. Held' = {}
  BY <1>4, <1>7, HeldIds
<1> QED
  BY <1>3, <1>4, <1>5, <1>6, <1>7, <1>8

LEMMA RowStep ==
  ASSUME TypeInv, RowInv, [Next]_vars
  PROVE  RowInv'
<1>1. CASE Calm
  <2>1. Held' = Held
    BY <1>1, HeldStays DEF Calm
  <2> QED
    BY <1>1, <2>1, RowFrame DEF Calm, Untouched, RowInv
<1>2. ASSUME NEW t \in Turns, SyncVector(t) PROVE RowInv'
  <2>1. PICK next \in Requests(t) :
          /\ next.id \in Turns
          /\ \/ vector' = [vector EXCEPT ![next.id] = next.status] /\ UNCHANGED drifted
             \/ /\ vector' \in {vector, [vector EXCEPT ![next.id] = next.status]}
                /\ drifted' = drifted \cup {next.id}
          /\ Requests(t)' \subseteq Requests(t)
          /\ \A m \in Turns \ {t} : learning'[m] = learning[m] /\ Requests(m)' = Requests(m)
          /\ Written(t) /\ Written(t)' /\ learning'[t].pc # "locked"
          /\ UNCHANGED <<row, cleaner, recall>>
    BY <1>2, Syncs
  <2>2. Held' \subseteq Held \cup {}
    <3>1. \A m \in Turns : \A r \in Requests(m)' : r \in Requests(m)
      BY <2>1
    <3> QED
      BY <2>1, <3>1, HeldFrame DEF ToDelete
  <2>3. next.id \in Held
    BY <2>1, HeldIds
  <2>4. Written(next.id)
    BY <2>1, <2>3 DEF RowInv
  <2>5. \A m \in Turns : Written(m)' <=> Written(m)
    BY <2>1 DEF Written
  <2>6. Untouched
    BY <2>1, <2>2, <2>4, <2>5 DEF Untouched, RowInv, TypeInv, TypeOK, MemoryTypeOK
  <2>7. \A m \in Turns : learning'[m].pc = "locked" => learning'[m] = learning[m]
    BY <2>1
  <2> QED
    BY <2>1, <2>6, <2>7, RowFrame
<1>3. ASSUME DeleteVectors PROVE RowInv'
  <2>1. /\ UNCHANGED <<row, learning>> /\ cleaner.pc = "vectors" /\ cleaner'.pc = "idle"
        /\ drifted' \subseteq drifted \cup cleaner.ids
        /\ \A m \in Turns : m \notin cleaner.ids => vector'[m] = vector[m]
    BY <1>3 DEF DeleteVectors, Resting
  <2>2. ToDelete = cleaner.ids /\ ToDelete' = {}
    BY <2>1 DEF ToDelete
  <2>3. Held' \subseteq Held \cup {}
    <3>1. \A m \in Turns : \A r \in Requests(m)' : r \in Requests(m)
      BY <2>1 DEF Requests
    <3> QED
      BY <2>2, <3>1, HeldFrame
  <2>4. \A m \in cleaner.ids : m \in Held
    BY <2>2, HeldIds
  <2>5. Untouched
    BY <2>1, <2>3, <2>4 DEF Untouched, RowInv, Written
  <2> QED
    BY <2>1, <2>5, RowFrame
<1>4. CASE Restart
  <2>1. UNCHANGED <<row, vector>> /\ drifted' = drifted \cup Held
    BY <1>4 DEF Restart
  <2>2. Untouched
    BY <1>4, <2>1, RestartRests DEF Untouched, RowInv
  <2>3. \A m \in Turns : learning'[m].pc # "locked"
    BY <1>4, RestartRests
  <2> QED
    BY <2>1, <2>2, <2>3, RowFrame
<1> QED
  BY <1>1, <1>2, <1>3, <1>4, LockRow, WriteRow, DeleteRow, MemorySteps
-----------------------------------------------------------------------------
(* Vectors.                                                                *)

LEMMA VectorStart == ASSUME Init PROVE VectorInv
<1>1. \A t \in Turns : learning[t] = Unlearnt /\ row[t] = None /\ vector[t] = "none"
  BY DEF Init, MemoryInit
<1>2. Unlearnt.todo = << >>
  BY DEF Unlearnt
<1>3. \A t \in Turns : Requests(t) = {}
  BY <1>1, <1>2 DEF Requests
<1>4. ToDelete = {}
  BY DEF Init, MemoryInit, ToDelete, Resting
<1> QED
  BY <1>1, <1>3, <1>4 DEF VectorInv, VectorsFollowRows

LEMMA RequestType ==
  ASSUME TypeInv, NEW t \in Turns, NEW next \in Requests(t)
  PROVE  next \in Sync /\ next.id \in Turns /\ next.id \in Held
<1>1. learning[t].todo \in Seq(Sync)
  BY DEF TypeInv, TypeOK, MemoryTypeOK, Learning
<1>2. next \in Sync
  BY <1>1 DEF Requests
<1> QED
  BY <1>2, HeldIds DEF Sync

\* After a transaction each request says what the row says, and whoever had one
\* for the same record drifts.
LEMMA WriteVector ==
  ASSUME TypeInv, RowInv, VectorInv, NEW t \in Turns, WriteTransaction(t)
  PROVE  VectorInv'
<1>1. PICK todo :
        /\ Stores(t, todo) \/ Refreshes(t, todo) \/ Rejects(t, todo) \/ Replaces(t, todo)
        /\ \A m \in Turns \ {t} : learning'[m] = learning[m] /\ Requests(m)' = Requests(m)
        /\ Requests(t) = {}
        /\ \/ /\ Requests(t)' = {todo[i] : i \in DOMAIN todo}
              /\ drifted' = (drifted \ Ids(todo)) \cup (Ids(todo) \cap Held)
           \/ Requests(t)' = {} /\ drifted' = drifted \cup Ids(todo)
  BY Writes
<1>2. /\ \A m \in Turns \ Ids(todo) : row'[m] = row[m]
      /\ Ids(todo) \subseteq Turns /\ Ids(todo) \subseteq {t, learning[t].active}
      /\ \A i \in DOMAIN todo : /\ row'[todo[i].id] # None /\ row'[todo[i].id].status = todo[i].status
                                /\ todo[i].id \in Ids(todo)
  BY <1>1, OutcomeType, WrittenRows
<1>3. /\ UNCHANGED <<vector, cleaner>> /\ vector[t] = "none" /\ t \notin Held
      /\ learning[t].active # None => Active(learning[t].active)
  BY <1>1, Outcomes DEF RowInv, Written
<1>4. \A m \in Ids(todo) : m \in Held => Active(m)
  <2>1. \A m \in Ids(todo) : m # t => m = learning[t].active /\ m \in Turns
    BY <1>2
  <2> QED
    BY <1>3, <2>1, TurnsAssumption
<1>5. \A m \in Ids(todo) : vector[m] # "superseded"
  <2>1. \A m \in Ids(todo) : m = t \/ (m = learning[t].active /\ m \in Turns)
    BY <1>2
  <2>2. \A m \in Ids(todo) : m = t \/ (m \in Turns /\ Active(m))
    BY <1>3, <2>1, TurnsAssumption
  <2> QED
    BY <1>3, <2>2 DEF VectorInv, VectorsFollowRows
<1>6. ToDelete' = ToDelete
  BY <1>3 DEF ToDelete
<1>7. /\ \A m \in Ids(todo) : m \in Held => m \in drifted'
      /\ \A m \in Turns \ Ids(todo) : m \in drifted' <=> m \in drifted
  BY <1>1
<1>8. \A m \in Turns : m \in Held => m \in Held'
  <2>1. \A k \in Turns : Requests(k) \subseteq Requests(k)'
    BY <1>1
  <2> QED
    BY <1>6, <2>1, HeldIds
<1>9. \A m \in Ids(todo) : m \in Held' \cup drifted'
  <2>1. ASSUME NEW m \in Ids(todo), Requests(t)' = {todo[i] : i \in DOMAIN todo} PROVE m \in Held'
    <3>1. PICK i \in DOMAIN todo : m = todo[i].id
      BY DEF Ids
    <3> QED
      BY <2>1, <3>1, HeldIds
  <2> QED
    BY <1>1, <2>1
<1>10. VectorsFollowRows'
  <2>1. \A m \in Turns : vector'[m] = "superseded" => m \notin Ids(todo) /\ ~ Active(m)
    BY <1>3, <1>5 DEF VectorInv, VectorsFollowRows
  <2>2. \A m \in Turns : vector'[m] = "superseded" => ~ Active(m)'
    BY <1>2, <2>1 DEF Active
  <2>3. ASSUME NEW m \in Turns, m \notin Held' \cup drifted'
        PROVE  vector'[m] = IF row'[m] = None THEN "none" ELSE row'[m].status
    <3>1. m \notin Ids(todo) /\ m \notin Held \cup drifted
      BY <1>7, <1>8, <1>9, <2>3
    <3> QED
      BY <1>2, <1>3, <3>1 DEF VectorInv, VectorsFollowRows
  <2> QED
    BY <2>2, <2>3 DEF VectorsFollowRows
<1>11. ASSUME NEW k \in Turns, NEW next \in Requests(k)'
       PROVE  /\ next.status = "superseded" => row'[next.id] = None \/ row'[next.id].status # "active"
              /\ next.id \notin drifted' => row'[next.id] # None /\ row'[next.id].status = next.status
  <2>1. CASE next \in Requests(k)
    <3>1. next.id \in Turns /\ next.id \in Held
      BY <2>1, RequestType
    <3>2. CASE next.id \in Ids(todo)
      BY <1>4, <1>7, <2>1, <3>1, <3>2 DEF VectorInv
    <3>3. CASE next.id \notin Ids(todo)
      BY <1>2, <1>7, <2>1, <3>1, <3>3 DEF VectorInv, Active
    <3> QED
      BY <3>2, <3>3
  <2>2. CASE next \notin Requests(k)
    <3>1. k = t /\ \E i \in DOMAIN todo : next = todo[i]
      BY <1>1, <1>11, <2>2
    <3> QED
      BY <1>2, <3>1
  <2> QED
    BY <2>1, <2>2
<1>12. \A m \in ToDelete' \ drifted' : row'[m] = None
  <2>1. SUFFICES ASSUME NEW m \in ToDelete, m \notin drifted' PROVE row'[m] = None
    BY <1>6
  <2>2. m \in Held /\ m \in Turns
    BY HeldIds DEF ToDelete, TypeInv, TypeOK, MemoryTypeOK, Cleaner
  <2> QED
    BY <1>2, <1>7, <2>1, <2>2 DEF VectorInv
<1> QED
  BY <1>10, <1>11, <1>12 DEF VectorInv, Active

LEMMA SyncedVector ==
  ASSUME TypeInv, VectorInv, NEW t \in Turns, SyncVector(t)
  PROVE  VectorInv'
<1>1. PICK next \in Requests(t) :
        /\ next.id \in Turns
        /\ \/ vector' = [vector EXCEPT ![next.id] = next.status] /\ UNCHANGED drifted
           \/ /\ vector' \in {vector, [vector EXCEPT ![next.id] = next.status]}
              /\ drifted' = drifted \cup {next.id}
        /\ Requests(t)' \subseteq Requests(t) /\ Requests(t) \subseteq Requests(t)' \cup {next}
        /\ \A m \in Turns \ {t} : learning'[m] = learning[m] /\ Requests(m)' = Requests(m)
        /\ UNCHANGED <<row, cleaner, recall>>
  BY Syncs
<1>2. /\ next.status = "superseded" => ~ Active(next.id)
      /\ next.id \notin drifted => row[next.id] # None /\ row[next.id].status = next.status
  BY <1>1 DEF VectorInv
<1>3. DOMAIN vector = Turns
  BY DEF TypeInv, TypeOK, MemoryTypeOK
<1>4. \A m \in Turns : vector'[m] = vector[m] \/ (m = next.id /\ vector'[m] = next.status)
  BY <1>1, <1>3
<1>5. \A m \in Turns : m \notin Held' => m \notin Held \/ m = next.id
  <2>1. \A k \in Turns : \A r \in Requests(k) : r \in Requests(k)' \/ r = next
    BY <1>1
  <2>2. ToDelete' = ToDelete
    BY <1>1 DEF ToDelete
  <2> QED
    BY <2>1, <2>2, HeldIds
<1>6. ASSUME NEW m \in Turns, m \notin Held' \cup drifted'
      PROVE  vector'[m] = IF row'[m] = None THEN "none" ELSE row'[m].status
  <2>1. CASE m = next.id
    BY <1>1, <1>2, <1>3, <1>6, <2>1
  <2>2. CASE m # next.id
    BY <1>1, <1>4, <1>5, <1>6, <2>2 DEF VectorInv, VectorsFollowRows
  <2> QED
    BY <2>1, <2>2
<1>7. \A m \in Turns : vector'[m] = "superseded" => ~ Active(m)'
  BY <1>1, <1>2, <1>4 DEF VectorInv, VectorsFollowRows, Active
<1>8. \A k \in Turns : Requests(k)' \subseteq Requests(k)
  BY <1>1
<1>9. \A k \in Turns : \A r \in Requests(k)' :
        /\ r.status = "superseded" => row'[r.id] = None \/ row'[r.id].status # "active"
        /\ r.id \notin drifted' => row'[r.id] # None /\ row'[r.id].status = r.status
  BY <1>1, <1>8 DEF VectorInv, Active
<1>10. \A m \in ToDelete' \ drifted' : row'[m] = None
  BY <1>1 DEF VectorInv, ToDelete
<1> QED
  BY <1>6, <1>7, <1>9, <1>10 DEF VectorInv, VectorsFollowRows, Active

LEMMA VectorStep ==
  ASSUME TypeInv, RowInv, VectorInv, [Next]_vars
  PROVE  VectorInv'
<1>1. ASSUME UNCHANGED <<row, vector, drifted>>, ToDelete' = ToDelete,
             \A t \in Turns : Requests(t)' = Requests(t)
      PROVE  VectorInv'
  <2>1. Held' = Held
    BY <1>1, HeldStays
  <2> QED
    BY <1>1, <2>1 DEF VectorInv, VectorsFollowRows, Active
<1>2. CASE Calm
  BY <1>1, <1>2 DEF Calm
<1>3. ASSUME NEW t \in Turns, GetActiveFact(t) PROVE VectorInv'
  <2>1. PICK rec, m : learning' = [learning EXCEPT ![t] =
                                     [@ EXCEPT !.pc = "locked", !.rec = rec, !.active = m]]
    BY <1>3 DEF GetActiveFact
  <2>2. PICK x : x = [learning[t] EXCEPT !.pc = "locked", !.rec = rec, !.active = m]
    OBVIOUS
  <2>3. learning[t] \in Learning /\ DOMAIN learning = Turns
    BY DEF TypeInv, TypeOK, MemoryTypeOK
  <2>4. learning'[t] = x /\ x.todo = learning[t].todo /\ \A k \in Turns \ {t} : learning'[k] = learning[k]
    BY <2>1, <2>2, <2>3 DEF Learning
  <2>5. \A k \in Turns : Requests(k)' = Requests(k)
    BY <2>4 DEF Requests
  <2> QED
    BY <1>1, <1>3, <2>5 DEF GetActiveFact, ToDelete
<1>4. ASSUME NEW ids, Deletes(ids) PROVE VectorInv'
  <2>1. /\ ids \subseteq Turns /\ UNCHANGED <<vector, learning>>
        /\ \A m \in Turns : row'[m] = IF m \in ids THEN None ELSE row[m]
        /\ drifted' = (drifted \ ids) \cup (ids \cap Held)
        /\ ToDelete = {} /\ ToDelete' = ids
    BY <1>4 DEF Deletes, ToDelete
  <2>2. \A k \in Turns : Requests(k)' = Requests(k)
    BY <2>1 DEF Requests
  <2>3. \A m : m \in Held' <=> m \in Held \/ m \in ids
    BY <2>1, <2>2, HeldIds
  <2>4. VectorsFollowRows'
    BY <2>1, <2>3 DEF VectorInv, VectorsFollowRows, Active
  <2>5. ASSUME NEW k \in Turns, NEW r \in Requests(k)
        PROVE  /\ r.status = "superseded" => row'[r.id] = None \/ row'[r.id].status # "active"
               /\ r.id \notin drifted' => row'[r.id] # None /\ row'[r.id].status = r.status
    <3>1. r.id \in Turns /\ r.id \in Held
      BY RequestType
    <3> QED
      BY <2>1, <3>1 DEF VectorInv, Active
  <2>6. \A m \in ToDelete' \ drifted' : row'[m] = None
    BY <2>1
  <2> QED
    BY <2>2, <2>4, <2>5, <2>6 DEF VectorInv, Active
<1>5. CASE DeleteVectors
  <2>1. /\ UNCHANGED <<row, learning>> /\ cleaner.pc = "vectors" /\ cleaner'.pc = "idle"
        /\ \/ /\ vector' = [m \in Turns |-> IF m \in cleaner.ids THEN "none" ELSE vector[m]]
              /\ UNCHANGED drifted
           \/ UNCHANGED vector /\ drifted' = drifted \cup cleaner.ids
    BY <1>5 DEF DeleteVectors, Resting
  <2>2. ToDelete = cleaner.ids /\ ToDelete' = {}
    BY <2>1 DEF ToDelete
  <2>3. \A k \in Turns : Requests(k)' = Requests(k)
    BY <2>1 DEF Requests
  <2>4. \A m : m \in Held <=> m \in Held' \/ m \in cleaner.ids
    BY <2>2, <2>3, HeldIds
  <2>5. \A m \in cleaner.ids \ drifted : row[m] = None
    BY <2>2 DEF VectorInv
  <2>6. ASSUME NEW m \in Turns, m \notin Held' \cup drifted'
        PROVE  vector'[m] = IF row'[m] = None THEN "none" ELSE row'[m].status
    <3>1. CASE m \in cleaner.ids
      BY <2>1, <2>5, <2>6, <3>1
    <3>2. CASE m \notin cleaner.ids
      BY <2>1, <2>4, <2>6, <3>2 DEF VectorInv, VectorsFollowRows
    <3> QED
      BY <3>1, <3>2
  <2>7. \A m \in Turns : vector'[m] = "superseded" => ~ Active(m)'
    BY <2>1 DEF VectorInv, VectorsFollowRows, Active
  <2> QED
    BY <2>1, <2>2, <2>3, <2>6, <2>7 DEF VectorInv, VectorsFollowRows, Active
<1>6. CASE Restart
  <2>1. /\ UNCHANGED <<row, vector>> /\ drifted' = drifted \cup Held
        /\ ToDelete' = {} /\ \A t \in Turns : Requests(t)' = {}
    BY <1>6, RestartRests DEF Restart
  <2> QED
    BY <2>1 DEF VectorInv, VectorsFollowRows, Active
<1> QED
  BY <1>2, <1>3, <1>4, <1>5, <1>6, WriteVector, SyncedVector, MemorySteps
-----------------------------------------------------------------------------
(* Recall.                                                                 *)

\* A record that was written becomes active no more, whatever happens to it,
\* and stays its user's.
LEMMA RowsAge ==
  ASSUME TypeInv, RowInv, [Next]_vars
  PROVE  \A m \in Turns : Written(m) =>
           /\ Written(m)'
           /\ Active(m)' => Active(m) /\ row'[m].user = row[m].user
<1>1. ASSUME NEW t \in Turns, WriteTransaction(t), NEW m \in Turns, Written(m)
      PROVE  /\ Written(m)'
             /\ Active(m)' => Active(m) /\ row'[m].user = row[m].user
  <2>1. PICK todo :
          /\ Stores(t, todo) \/ Refreshes(t, todo) \/ Rejects(t, todo) \/ Replaces(t, todo)
          /\ ~ Written(t)
    BY <1>1, Writes
  <2>2. /\ m # t /\ Written(m)' /\ row \in [Turns -> Row \cup {None}]
        /\ learning[t].active # None =>
             learning[t].active \in Turns \ {t} /\ Old(t) \in Row /\ Old(t).status = "active"
    BY <1>1, <2>1, WriteRow, Outcomes DEF TypeInv, TypeOK, MemoryTypeOK
  <2>3. CASE Stores(t, todo)
    BY <2>2, <2>3 DEF Stores, Active
  <2>4. CASE Rejects(t, todo)
    BY <2>2, <2>4 DEF Rejects, Active
  <2>5. CASE Refreshes(t, todo)
    <3>1. CASE m = learning[t].active
      <4>1. Old(t) = row[m] /\ row[m] \in Row /\ row[m].status = "active"
        BY <2>2, <2>5, <3>1 DEF Refreshes, Old
      <4>2. row'[m] = Refreshed(row[m], Rec(t))
        BY <2>2, <2>5, <3>1, <4>1 DEF Refreshes
      <4>3. row'[m].user = row[m].user
        BY <4>1, <4>2 DEF Refreshed, Row
      <4> QED
        BY <2>2, <4>1, <4>3, NoRowAssumption DEF Active
    <3>2. CASE m # learning[t].active
      BY <2>2, <2>5, <3>2 DEF Refreshes, Active
    <3> QED
      BY <3>1, <3>2
  <2>6. CASE Replaces(t, todo)
    <3>1. CASE m = learning[t].active
      <4>1. PICK new : new = [Old(t) EXCEPT !.status = "superseded", !.by = t]
        OBVIOUS
      <4>2. row'[m] = new /\ new.status = "superseded"
        BY <2>2, <2>6, <3>1, <4>1 DEF Replaces, Row
      <4> QED
        BY <2>2, <4>2 DEF Active
    <3>2. CASE m # learning[t].active
      BY <2>2, <2>6, <3>2 DEF Replaces, Active
    <3> QED
      BY <3>1, <3>2
  <2> QED
    BY <2>1, <2>3, <2>4, <2>5, <2>6
<1>2. CASE Calm
  BY <1>2 DEF Calm, Active
<1>3. ASSUME NEW t \in Turns, GetActiveFact(t), NEW m \in Turns, Written(m)
      PROVE  Written(m)' /\ row' = row
  <2>1. m # t /\ DOMAIN learning = Turns
    BY <1>3 DEF GetActiveFact, Written, TypeInv, TypeOK, MemoryTypeOK
  <2>2. learning'[m] = learning[m]
    BY <1>3, <2>1 DEF GetActiveFact
  <2> QED
    BY <1>3, <2>2 DEF GetActiveFact, Written
<1>4. ASSUME NEW t \in Turns, SyncVector(t), NEW m \in Turns, Written(m)
      PROVE  Written(m)' /\ row' = row
  BY <1>4, Syncs DEF Written
<1>5. ASSUME NEW ids, Deletes(ids), NEW m \in Turns, Written(m)
      PROVE  Written(m)' /\ row'[m] \in {None, row[m]}
  BY <1>5 DEF Deletes, Written
<1>6. CASE DeleteVectors
  BY <1>6 DEF DeleteVectors, Written, Active
<1>7. CASE Restart
  BY <1>7, RestartRests DEF Restart, Active
<1> QED
  BY <1>1, <1>2, <1>3, <1>4, <1>5, <1>6, <1>7, MemorySteps DEF Active

LEMMA RecallStart == ASSUME Init PROVE RecallInv
  BY DEF Init, MemoryInit, NoRecall, RecallInv, RecalledIsLive

LEMMA RecallSteps ==
  ASSUME [Next]_vars
  PROVE  (\E u \in Users : Search(u)) \/ LoadRecall \/ EndRecall \/ Restart \/ recall' = recall
  BY DEF Next, vars, memoryVars, sessionVars, RecallStep, Ask, Answer, SessionSave, SessionDelete,
         DeleteMemories, DeleteBySession, DeleteVectors, LearnStep, GetActiveFact, WriteAgain,
         WriteTransaction, WriteFails, SyncVector

LEMMA RecallKept ==
  ASSUME TypeInv, RowInv, RecallInv, [Next]_vars
  PROVE  RecallInv'
<1>1. recall \in Recall
  BY DEF TypeInv, TypeOK, MemoryTypeOK
<1>2. ASSUME NEW u \in Users, Search(u) PROVE RecallInv'
  <2>1. /\ recall'.pc = "load" /\ recall'.user = u /\ recall'.dead \subseteq Dead(u)
        /\ UNCHANGED <<row, learning>>
    BY <1>2 DEF Search
  <2>2. \A m \in Dead(u) : m \in Turns /\ Written(m) /\ (Active(m) => row[m].user # u)
    BY DEF Dead, Written, RowInv
  <2> QED
    BY <2>1, <2>2 DEF RecallInv, RecalledIsLive, Written, Active
<1>3. CASE LoadRecall
  <2>1. PICK found : found = Recalled(recall.user)
    OBVIOUS
  <2>2. \A m \in found : Active(m) /\ row[m].user = recall.user
    BY <2>1 DEF Recalled
  <2>3. found \cap recall.dead = {}
    BY <1>3, <2>2 DEF LoadRecall, RecallInv
  <2>4. CASE found = {}
    BY <1>3, <2>1, <2>4 DEF LoadRecall, NoRecall, RecallInv, RecalledIsLive
  <2>5. CASE found # {}
    <3>1. recall' = [recall EXCEPT !.pc = "injected", !.ids = found, !.user = None]
      BY <1>3, <2>1, <2>5 DEF LoadRecall
    <3>2. recall'.pc = "injected" /\ recall'.ids = found /\ recall'.dead = recall.dead
      BY <1>1, <3>1 DEF Recall
    <3> QED
      BY <2>3, <3>2 DEF RecallInv, RecalledIsLive
  <2> QED
    BY <2>4, <2>5
<1>4. CASE EndRecall
  BY <1>4 DEF EndRecall, NoRecall, RecallInv, RecalledIsLive
<1>5. CASE Restart
  BY <1>5, RestartRests DEF RecallInv, RecalledIsLive
<1>6. CASE recall' = recall
  <2>1. \A m \in recall.dead : m \in Turns
    BY <1>1 DEF Recall
  <2>2. recall.pc = "load" => \A m \in recall.dead :
          /\ Written(m)'
          /\ Active(m)' => row'[m].user # recall.user
    BY <2>1, RowsAge DEF RecallInv
  <2> QED
    BY <1>6, <2>2 DEF RecallInv, RecalledIsLive
<1> QED
  BY <1>2, <1>3, <1>4, <1>5, <1>6, RecallSteps
-----------------------------------------------------------------------------
(* Deletion.                                                               *)

LEMMA ForgetStart == ASSUME Init PROVE ForgetInv
<1>1. \A s \in SessionIds : gone[s].saved = TRUE /\ gone[s].later = {}
  BY DEF Init, NotDeleted
<1>2. \A t \in Turns : saving[t].sess = None /\ row[t] = None
  BY DEF Init, SessionInit, MemoryInit, NewTurn
<1>3. cleaner.pc = "idle"
  BY DEF Init, MemoryInit, Resting
<1> QED
  BY <1>1, <1>2, <1>3, TurnsAssumption DEF ForgetInv, Renewed, Unlearned, Followed, Memories

\* While no more is known of it than before, a session stays renewed.
LEMMA RenewedStays ==
  ASSUME TypeInv, [Next]_vars, NEW s \in SessionIds, Renewed(s), Followed(s),
         session'[s] \in {None, session[s]},
         gone'[s].saved = gone[s].saved, gone'[s].given = gone[s].given,
         gone[s].later \subseteq gone'[s].later
  PROVE  Renewed(s)'
<1>1. SUFFICES ASSUME session'[s] # None, ~gone'[s].saved
      PROVE  /\ \E t \in gone'[s].later : saving'[t].user = session'[s].owner
             /\ TurnsOf(session'[s].turns) \subseteq gone'[s].later
             /\ session'[s].summary \subseteq gone'[s].later \cup gone'[s].given
  BY DEF Renewed
<1>2. PICK t \in gone[s].later : saving[t].user = session[s].owner
  BY <1>1 DEF Renewed
<1>3. t \in Turns /\ saving[t].pc # "new"
  BY DEF Followed, TypeInv, TypeOK, Deletion
<1>4. saving'[t].user = saving[t].user
  BY <1>3, UsersStay
<1>5. session'[s] = session[s]
  BY <1>1
<1>6. TurnsOf(session'[s].turns) = TurnsOf(session[s].turns)
  BY <1>5
<1> QED
  BY <1>1, <1>2, <1>4, <1>5, <1>6 DEF Renewed

\* While the user has no memory of the session that is new, nothing is learnt
\* again.
LEMMA UnlearnedStays ==
  ASSUME TypeInv, RowInv, [Next]_vars, NEW s \in SessionIds, Unlearned(s), Followed(s),
         gone'[s].user = gone[s].user, gone'[s].kept = gone[s].kept,
         gone[s].later \subseteq gone'[s].later,
         Memories(gone[s].user, s)' \subseteq Memories(gone[s].user, s)
  PROVE  Unlearned(s)'
<1>1. ASSUME Relearnt(s) PROVE Relearnt(s)'
  <2>1. PICK t \in gone[s].later : saving[t].user = gone[s].user /\ Written(t)
    BY <1>1 DEF Relearnt, Written
  <2>2. t \in Turns /\ saving[t].pc # "new"
    BY DEF Followed, TypeInv, TypeOK, Deletion
  <2>3. saving'[t].user = saving[t].user /\ Written(t)'
    BY <2>1, <2>2, UsersStay, RowsAge
  <2> QED
    BY <2>1, <2>3 DEF Relearnt, Written
<1>2. PICK u : u = gone[s].user
  OBVIOUS
<1>3. Memories(u, s)' \subseteq Memories(u, s) /\ gone'[s].user = u
  BY <1>2 DEF Memories
<1>4. Memories(gone[s].user, s)' = Memories(u, s)'
  BY <1>3 DEF Memories
<1> QED
  BY <1>1, <1>2, <1>3 DEF Unlearned, Memories

\* Rows that stay as they are, or go, are no new memories.
LEMMA FewerMemories ==
  ASSUME NEW s, \A m \in Turns : row'[m] \in {None, row[m]}, gone'[s].user = gone[s].user
  PROVE  Memories(gone[s].user, s)' \subseteq Memories(gone[s].user, s)
  BY DEF Memories

\* What a transaction writes anew is a memory of the turn's user and session.
LEMMA RowsOf ==
  ASSUME TypeInv, RowInv, NEW t \in Turns, WriteTransaction(t)
  PROVE  \A m \in Turns : row'[m] # None =>
           \/ row'[m].user = saving[t].user /\ row'[m].sess = saving[t].sess
           \/ row[m] # None /\ row'[m].user = row[m].user /\ row'[m].sess = row[m].sess
<1>1. PICK todo : Stores(t, todo) \/ Refreshes(t, todo) \/ Rejects(t, todo) \/ Replaces(t, todo)
  BY Writes
<1>2. PICK rec : rec = Rec(t)
  OBVIOUS
<1>3. PICK a : a = learning[t].active
  OBVIOUS
<1>4. /\ rec \in Row /\ rec.sess = saving[t].sess /\ rec.user = saving[t].user
      /\ row \in [Turns -> Row \cup {None}]
      /\ a # None => a \in Turns \ {t} /\ row[a] \in Row /\ row[a].user = rec.user
  BY <1>2, <1>3, Outcomes DEF Lesson, Rec, Old, TypeInv, TypeOK, MemoryTypeOK
<1>5. CASE Stores(t, todo)
  BY <1>2, <1>4, <1>5 DEF Stores
<1>6. CASE Rejects(t, todo)
  <2>1. PICK new : new = [rec EXCEPT !.status = "superseded", !.by = a]
    OBVIOUS
  <2>2. new.sess = rec.sess /\ new.user = rec.user /\ row' = [row EXCEPT ![t] = new]
    BY <1>2, <1>3, <1>4, <1>6, <2>1 DEF Rejects, Row
  <2> QED
    BY <1>4, <2>2
<1>7. CASE Refreshes(t, todo)
  <2>1. PICK new : new = Refreshed(row[a], rec)
    OBVIOUS
  <2>2. a # None /\ row' = [row EXCEPT ![a] = new]
    BY <1>2, <1>3, <1>7, <2>1 DEF Refreshes, Old
  <2>3. (new.sess = rec.sess /\ new.user = rec.user) \/ new = row[a]
    BY <1>4, <2>1, <2>2 DEF Refreshed, Row
  <2> QED
    BY <1>4, <2>2, <2>3, NoRowAssumption
<1>8. CASE Replaces(t, todo)
  <2>1. PICK new : new = [row[a] EXCEPT !.status = "superseded", !.by = t]
    OBVIOUS
  <2>2. a # None /\ row' = [row EXCEPT ![t] = rec, ![a] = new]
    BY <1>2, <1>3, <1>8, <2>1 DEF Replaces, Old
  <2>3. new.user = row[a].user /\ new.sess = row[a].sess /\ row[a] # None
    BY <1>4, <2>1, <2>2, NoRowAssumption DEF Row
  <2> QED
    BY <1>4, <2>2, <2>3
<1> QED
  BY <1>1, <1>5, <1>6, <1>7, <1>8

\* A transaction is of a turn that was under way when the session was deleted
\* or was asked since.
LEMMA WriteRelearns ==
  ASSUME TypeInv, RowInv, ForgetInv, [Next]_vars,
         NEW t \in Turns, WriteTransaction(t), UNCHANGED <<sessionVars, gone>>,
         NEW s \in SessionIds
  PROVE  Unlearned(s)'
<1>1. Unlearned(s) /\ Followed(s)
  BY DEF ForgetInv
<1>2. UNCHANGED <<saving, gone>>
  BY DEF sessionVars
<1>3. CASE saving[t].sess = s /\ saving[t].user = gone[s].user
  <2>1. learning[t].pc = "locked" /\ Written(t)'
    BY Writes, Outcomes
  <2>2. t \in gone[s].later
    BY <1>1, <1>3, <2>1 DEF Followed, Busy
  <2>3. Relearnt(s)'
    BY <1>2, <1>3, <2>1, <2>2 DEF Relearnt, Written
  <2> QED
    BY <2>3 DEF Unlearned
<1>4. CASE ~(saving[t].sess = s /\ saving[t].user = gone[s].user)
  <2>1. \A m \in Turns : row'[m] # None /\ row'[m].user = gone[s].user /\ row'[m].sess = s =>
          row[m] # None /\ row[m].user = gone[s].user /\ row[m].sess = s
    BY <1>4, RowsOf
  <2>2. Memories(gone[s].user, s)' \subseteq Memories(gone[s].user, s)
    BY <1>2, <2>1 DEF Memories
  <2> QED
    BY <1>1, <1>2, <2>2, UnlearnedStays
<1> QED
  BY <1>3, <1>4

\* Turns that go on without reading or writing a session.
LEMMA FollowedStays ==
  ASSUME NEW s \in SessionIds, Followed(s), gone' = gone,
         \A t \in Turns : /\ saving'[t].sess = saving[t].sess
                          /\ saving[t].pc # "new" => saving'[t].pc # "new"
                          /\ Busy(t)' => Busy(t)
                          /\ saving'[t].seen \subseteq saving[t].seen,
         gone[s].later \subseteq Turns
  PROVE  Followed(s)'
  BY DEF Followed

LEMMA ForgetFrame ==
  ASSUME TypeInv, ForgetInv, [Next]_vars, UNCHANGED <<session, gone>>,
         cleaner'.pc = "memories" => cleaner' = cleaner,
         \A t \in Turns : /\ saving'[t].sess = saving[t].sess
                          /\ saving[t].pc # "new" => saving'[t].pc # "new"
                          /\ Busy(t)' => Busy(t)
                          /\ saving'[t].seen \subseteq saving[t].seen,
         \A s \in SessionIds : Unlearned(s)'
  PROVE  ForgetInv'
<1>1. ASSUME NEW s \in SessionIds PROVE Renewed(s)' /\ Followed(s)'
  <2>1. Renewed(s) /\ Followed(s)
    BY DEF ForgetInv
  <2>2. gone[s].later \subseteq Turns
    BY DEF TypeInv, TypeOK, Deletion
  <2> QED
    BY <2>1, <2>2, RenewedStays, FollowedStays
<1> QED
  BY <1>1 DEF ForgetInv

\* The turn's own session is left in order, and the others alone.
LEMMA ForgetTurn ==
  ASSUME TypeInv, RowInv, ForgetInv, [Next]_vars, NEW t \in Turns, NEW s \in SessionIds,
         saving[t].sess = s, saving[t].pc # "new", UNCHANGED <<memoryVars, gone>>,
         \A m \in Turns \ {t} : saving'[m] = saving[m],
         saving'[t].pc # "new", saving'[t].sess = s, Busy(t)' => Busy(t),
         \A i \in SessionIds \ {s} : session'[i] = session[i],
         Renewed(s)',
         ~gone[s].saved => saving'[t].seen \subseteq gone[s].later \cup gone[s].given
  PROVE  ForgetInv'
<1>1. UNCHANGED <<row, cleaner, gone, learning>>
  BY DEF memoryVars
<1>2. ASSUME NEW i \in SessionIds PROVE Renewed(i)' /\ Unlearned(i)'
  <2>1. Renewed(i) /\ Unlearned(i) /\ Followed(i)
    BY DEF ForgetInv
  <2>2. Unlearned(i)'
    BY <1>1, <2>1, UnlearnedStays, FewerMemories
  <2>3. CASE i = s
    BY <2>2, <2>3
  <2>4. CASE i # s
    <3>1. session'[i] \in {None, session[i]}
      BY <2>4
    <3> QED
      BY <1>1, <2>1, <2>2, <3>1, RenewedStays
  <2> QED
    BY <2>3, <2>4
<1>3. ASSUME NEW i \in SessionIds PROVE Followed(i)'
  <2>1. Followed(i) /\ gone[i].later \subseteq Turns
    BY DEF ForgetInv, TypeInv, TypeOK, Deletion
  <2>2. ASSUME NEW m \in Turns, saving'[m].sess = i
        PROVE  /\ Busy(m)' => m \in gone'[i].later
               /\ ~gone'[i].saved => saving'[m].seen \subseteq gone'[i].later \cup gone'[i].given
    <3>1. CASE m = t
      BY <1>1, <2>1, <2>2, <3>1 DEF Followed
    <3>2. CASE m # t
      BY <1>1, <2>1, <2>2, <3>2 DEF Followed, Busy
    <3> QED
      BY <3>1, <3>2
  <2>3. \A m \in gone'[i].later : saving'[m].pc # "new"
    BY <1>1, <2>1 DEF Followed
  <2> QED
    BY <2>2, <2>3 DEF Followed
<1> QED
  BY <1>1, <1>2, <1>3 DEF ForgetInv

LEMMA ForgetSaveStep ==
  ASSUME TypeInv, RowInv, ForgetInv, [Next]_vars,
         NEW t \in Turns, SaveStep(t), UNCHANGED <<memoryVars, gone, requests>>
  PROVE  ForgetInv'
<1>1. PICK s : s = saving[t].sess
  OBVIOUS
<1>2. /\ saving[t].pc \in {"ensure", "append", "read", "summarize"}
      /\ saving \in [Turns -> Saving] /\ DOMAIN session = SessionIds /\ s \in SessionIds
      /\ saving[t] \in Saving
  BY <1>1 DEF SaveStep, EnsureSession, AppendMessages, GetFullSession, UpdateSummary,
              TypeInv, TypeOK, SessionTypeOK
<1>3. Busy(t) /\ Renewed(s) /\ Followed(s) /\ gone' = gone
  BY <1>2 DEF Busy, ForgetInv
<1>4. t \in gone[s].later /\ (~gone[s].saved => saving[t].seen \subseteq gone[s].later \cup gone[s].given)
  BY <1>1, <1>3 DEF Followed
<1>5. /\ \A m \in Turns \ {t} : saving'[m] = saving[m]
      /\ saving'[t].pc \in {"append", "read", "summarize", "done"}
  <2>1. PICK x : /\ saving' = [saving EXCEPT ![t] = x]
                 /\ \/ x = [saving[t] EXCEPT !.pc = "append"]
                    \/ x = [saving[t] EXCEPT !.pc = "read"]
                    \/ x = [saving[t] EXCEPT !.pc = "summarize", !.seen = Summarized(session[s].turns)]
                    \/ x = [saving[t] EXCEPT !.pc = "done", !.seen = {}]
    BY <1>1, <1>2 DEF SaveStep, EnsureSession, AppendMessages, GetFullSession, UpdateSummary, Done
  <2>2. x.pc \in {"append", "read", "summarize", "done"}
    BY <1>2, <2>1 DEF Saving
  <2> QED
    BY <1>2, <2>1, <2>2
<1>6. \A i \in SessionIds \ {s} : session'[i] = session[i]
  BY <1>1, <1>2 DEF SaveStep, EnsureSession, AppendMessages, GetFullSession, UpdateSummary
<1>7. saving'[t].sess = s /\ saving'[t].user = saving[t].user
  BY <1>1, <1>2, UsersStay
<1>8. CASE session' = session
  <2>1. Renewed(s)'
    BY <1>2, <1>3, <1>8, RenewedStays
  <2>2. ~gone[s].saved => saving'[t].seen \subseteq gone[s].later \cup gone[s].given
    <3>1. CASE GetFullSession(t)
      <4>1. \/ Owns(saving[t].user, s) /\ saving'[t].seen = TurnsOf(session[s].turns)
            \/ saving'[t].seen = {}
        BY <1>1, <1>2, <3>1 DEF GetFullSession, Done, Saving, Summarized
      <4> QED
        BY <1>3, <4>1 DEF Renewed, Owns
    <3>2. CASE ~GetFullSession(t)
      <4>1. saving'[t].seen = {} \/ saving'[t].seen = saving[t].seen
        BY <1>2, <3>2 DEF SaveStep, EnsureSession, AppendMessages, UpdateSummary, Done, Saving
      <4> QED
        BY <1>4, <4>1
    <3> QED
      BY <3>1, <3>2
  <2> QED
    BY <1>1, <1>2, <1>3, <1>5, <1>6, <1>7, <2>1, <2>2, ForgetTurn
<1>9. CASE session' # session
  <2>1. \/ /\ session[s] = None /\ session' = [session EXCEPT ![s] = Created(saving[t].user)]
        \/ /\ Owns(saving[t].user, s)
           /\ session' = [session EXCEPT ![s].turns = Append(@, t)]
        \/ /\ Owns(saving[t].user, s)
           /\ session' = [session EXCEPT ![s].summary = saving[t].seen]
    BY <1>1, <1>9 DEF SaveStep, EnsureSession, AppendMessages, GetFullSession, UpdateSummary, Appendable
  <2>2. saving'[t].seen = {} \/ saving'[t].seen = saving[t].seen
    BY <1>2, <1>9 DEF SaveStep, EnsureSession, AppendMessages, GetFullSession, UpdateSummary, Done, Saving
  <2>3. CASE session[s] = None /\ session' = [session EXCEPT ![s] = Created(saving[t].user)]
    <3>1. /\ session'[s].owner = saving[t].user /\ session'[s].turns = << >>
          /\ session'[s].summary = {}
      BY <1>2, <2>3 DEF Created
    <3>2. TurnsOf(session'[s].turns) = {}
      BY <3>1 DEF TurnsOf
    <3>3. Renewed(s)'
      BY <1>3, <1>4, <1>7, <3>1, <3>2 DEF Renewed
    <3> QED
      BY <1>1, <1>2, <1>3, <1>4, <1>5, <1>6, <1>7, <2>2, <3>3, ForgetTurn
  <2>4. CASE Owns(saving[t].user, s) /\ session' = [session EXCEPT ![s].turns = Append(@, t)]
    <3>1. session[s] \in Session /\ session[s] # None
      BY <1>2, <2>4 DEF Owns, TypeInv, TypeOK, SessionTypeOK
    <3>2. /\ session'[s].owner = saving[t].user /\ session'[s].turns = Append(session[s].turns, t)
          /\ session'[s].summary = session[s].summary /\ session[s].turns \in Seq(Turns)
      BY <1>2, <2>4, <3>1 DEF Session, Owns
    <3>3. TurnsOf(session'[s].turns) = TurnsOf(session[s].turns) \cup {t}
      BY <3>2, AppendedTurns
    <3>4. Renewed(s)'
      BY <1>3, <1>4, <1>7, <3>1, <3>2, <3>3 DEF Renewed
    <3> QED
      BY <1>1, <1>2, <1>3, <1>4, <1>5, <1>6, <1>7, <2>2, <3>4, ForgetTurn
  <2>5. CASE Owns(saving[t].user, s) /\ session' = [session EXCEPT ![s].summary = saving[t].seen]
    <3>1. session[s] \in Session /\ session[s] # None
      BY <1>2, <2>5 DEF Owns, TypeInv, TypeOK, SessionTypeOK
    <3>2. /\ session'[s].owner = saving[t].user /\ session'[s].turns = session[s].turns
          /\ session'[s].summary = saving[t].seen
      BY <1>2, <2>5, <3>1 DEF Session, Owns
    <3>3. TurnsOf(session'[s].turns) = TurnsOf(session[s].turns)
      BY <3>2
    <3>4. Renewed(s)'
      BY <1>3, <1>4, <1>7, <3>1, <3>2, <3>3 DEF Renewed
    <3> QED
      BY <1>1, <1>2, <1>3, <1>4, <1>5, <1>6, <1>7, <2>2, <3>4, ForgetTurn
  <2> QED
    BY <2>1, <2>3, <2>4, <2>5
<1> QED
  BY <1>8, <1>9

\* Somebody asks in the session, ...
LEMMA ForgetAsk ==
  ASSUME TypeInv, RowInv, ForgetInv, [Next]_vars,
         NEW t \in Turns, NEW u \in Users, NEW s \in SessionIds, Ask(t, u, s)
  PROVE  ForgetInv'
<1>1. /\ saving \in [Turns -> Saving] /\ DOMAIN session = SessionIds
      /\ gone \in [SessionIds -> Deletion] /\ gone[s] \in Deletion
  BY DEF TypeInv, TypeOK, SessionTypeOK
<1>2. ASSUME NEW i \in SessionIds PROVE Renewed(i) /\ Unlearned(i) /\ Followed(i)
  BY DEF ForgetInv
<1>3. /\ UNCHANGED <<session, row, learning, cleaner>>
      /\ gone' = [gone EXCEPT ![s].later = @ \cup {t}]
      /\ saving[t].pc = "new" /\ saving'[t].pc = "run" /\ saving'[t].sess = s
      /\ saving'[t].seen = {} /\ \A m \in Turns \ {t} : saving'[m] = saving[m]
  BY <1>1 DEF Ask, NewTurn, memoryVars
<1>4. learning[t].pc = "new"
  BY <1>3 DEF TypeInv
<1>5. \A i \in SessionIds :
        /\ gone'[i].user = gone[i].user /\ gone'[i].kept = gone[i].kept
        /\ gone'[i].given = gone[i].given /\ gone'[i].saved = gone[i].saved
        /\ gone'[i].later = IF i = s THEN gone[i].later \cup {t} ELSE gone[i].later
  BY <1>1, <1>3 DEF Deletion
<1>6. ASSUME NEW i \in SessionIds PROVE Renewed(i)' /\ Unlearned(i)'
  <2>1. gone[i].later \subseteq gone'[i].later /\ session'[i] \in {None, session[i]}
    BY <1>3, <1>5
  <2> QED
    BY <1>2, <1>3, <1>5, <2>1, RenewedStays, UnlearnedStays, FewerMemories
<1>7. ASSUME NEW i \in SessionIds PROVE Followed(i)'
  <2>1. \A m \in gone'[i].later : saving'[m].pc # "new"
    <3>1. gone[i].later \subseteq Turns
      BY DEF TypeInv, TypeOK, Deletion
    <3> QED
      BY <1>2, <1>3, <1>5, <3>1 DEF Followed
  <2>2. ASSUME NEW m \in Turns, saving'[m].sess = i
        PROVE  /\ Busy(m)' => m \in gone'[i].later
               /\ ~gone'[i].saved => saving'[m].seen \subseteq gone'[i].later \cup gone'[i].given
    <3>1. CASE m = t
      BY <1>3, <1>5, <2>2, <3>1
    <3>2. CASE m # t
      <4>1. saving[m].sess = i /\ (Busy(m)' <=> Busy(m)) /\ saving'[m].seen = saving[m].seen
        BY <1>3, <2>2, <3>2 DEF Busy
      <4>2. /\ Busy(m) => m \in gone[i].later
            /\ ~gone[i].saved => saving[m].seen \subseteq gone[i].later \cup gone[i].given
        BY <1>2, <4>1 DEF Followed
      <4>3. /\ gone[i].later \subseteq gone'[i].later
            /\ gone'[i].given = gone[i].given /\ gone'[i].saved = gone[i].saved
        BY <1>5
      <4> QED
        BY <4>1, <4>2, <4>3
    <3> QED
      BY <3>1, <3>2
  <2> QED
    BY <2>1, <2>2 DEF Followed
<1>8. cleaner'.pc = "memories" => gone'[cleaner'.sess].user = cleaner'.user
  BY <1>3, <1>5 DEF ForgetInv, TypeInv
<1> QED
  BY <1>6, <1>7, <1>8 DEF ForgetInv

\* ... or a client saves it.
LEMMA ForgetSave ==
  ASSUME TypeInv, RowInv, ForgetInv, [Next]_vars,
         NEW u \in Users, NEW s \in SessionIds, SessionSave(u, s)
  PROVE  ForgetInv'
<1>1. /\ saving \in [Turns -> Saving] /\ DOMAIN session = SessionIds
      /\ gone \in [SessionIds -> Deletion] /\ gone[s] \in Deletion
  BY DEF TypeInv, TypeOK, SessionTypeOK
<1>2. ASSUME NEW i \in SessionIds PROVE Renewed(i) /\ Unlearned(i) /\ Followed(i)
  BY DEF ForgetInv
<1>3. /\ UNCHANGED <<saving, row, learning, cleaner>>
      /\ gone' = [gone EXCEPT ![s].saved = TRUE]
      /\ \A i \in SessionIds \ {s} : session'[i] = session[i]
  BY <1>1 DEF SessionSave, Save, memoryVars
<1>4. \A i \in SessionIds :
        /\ gone'[i].user = gone[i].user /\ gone'[i].kept = gone[i].kept
        /\ gone'[i].given = gone[i].given /\ gone'[i].later = gone[i].later
        /\ gone'[i].saved = IF i = s THEN TRUE ELSE gone[i].saved
  BY <1>1, <1>3 DEF Deletion
<1>5. ASSUME NEW i \in SessionIds PROVE Unlearned(i)'
  <2>1. gone[i].later \subseteq gone'[i].later
    BY <1>4
  <2> QED
    BY <1>2, <1>3, <1>4, <2>1, UnlearnedStays, FewerMemories
<1>6. ASSUME NEW i \in SessionIds PROVE Renewed(i)'
  <2>1. CASE i = s
    BY <1>4, <2>1 DEF Renewed
  <2>2. CASE i # s
    <3>1. session'[i] \in {None, session[i]} /\ gone[i].later \subseteq gone'[i].later
      BY <1>3, <1>4, <2>2
    <3> QED
      BY <1>2, <1>4, <2>2, <3>1, RenewedStays
  <2> QED
    BY <2>1, <2>2
<1>7. ASSUME NEW i \in SessionIds PROVE Followed(i)'
  BY <1>2, <1>3, <1>4 DEF Followed, Busy
<1>8. cleaner'.pc = "memories" => gone'[cleaner'.sess].user = cleaner'.user
  BY <1>3, <1>4 DEF ForgetInv, TypeInv
<1> QED
  BY <1>5, <1>6, <1>7, <1>8 DEF ForgetInv

LEMMA ForgetDelete ==
  ASSUME TypeInv, RowInv, ForgetInv, [Next]_vars,
         NEW u \in Users, NEW s \in SessionIds, SessionDelete(u, s)
  PROVE  ForgetInv'
<1>1. PICK x : /\ gone' = [gone EXCEPT ![s] = x]
               /\ x = [user |-> u, kept |-> Memories(u, s), given |-> Given(s), saved |-> FALSE,
                       later |-> {t \in Turns : UnderWay(t, s)}]
  BY DEF SessionDelete
<1>2. /\ UNCHANGED <<saving, row, learning>> /\ session'[s] = None
      /\ \A i \in SessionIds \ {s} : session'[i] = session[i]
      /\ cleaner' = [Resting EXCEPT !.pc = "memories", !.user = u, !.sess = s]
  BY DEF SessionDelete, DeleteSession, TypeInv, TypeOK, SessionTypeOK
<1>3. gone'[s] = x /\ \A i \in SessionIds \ {s} : gone'[i] = gone[i]
  BY <1>1 DEF TypeInv, TypeOK
<1>4. ASSUME NEW i \in SessionIds \ {s} PROVE Renewed(i)' /\ Unlearned(i)' /\ Followed(i)'
  <2>1. Renewed(i) /\ Unlearned(i) /\ Followed(i) /\ gone'[i] = gone[i]
    BY <1>3 DEF ForgetInv
  <2>2. session'[i] \in {None, session[i]}
    BY <1>2
  <2>3. Renewed(i)'
    BY <2>1, <2>2, RenewedStays
  <2>4. Unlearned(i)'
    BY <1>2, <2>1, UnlearnedStays, FewerMemories
  <2>5. Followed(i)'
    BY <1>2, <2>1 DEF Followed, Busy
  <2> QED
    BY <2>3, <2>4, <2>5
<1>5. Renewed(s)'
  BY <1>2 DEF Renewed
<1>6. Unlearned(s)'
  <2>1. gone'[s].user = u /\ gone'[s].kept = Memories(u, s)
    BY <1>1, <1>3
  <2>2. Memories(gone[s].user, s)' = Memories(u, s)
    BY <1>2, <2>1 DEF Memories
  <2> QED
    BY <2>1, <2>2 DEF Unlearned, Memories
<1>7. Followed(s)'
  <2>1. gone'[s].later = {t \in Turns : UnderWay(t, s)} /\ gone'[s].given = Given(s)
    BY <1>1, <1>3
  <2>2. ASSUME NEW t \in gone'[s].later PROVE saving'[t].pc # "new"
    <3>1. t \in Turns /\ saving[t].sess = s
      BY <2>1 DEF UnderWay
    <3> QED
      BY <1>2, <3>1, TurnsAssumption DEF TypeInv, NewTurn
  <2>3. ASSUME NEW t \in Turns, saving'[t].sess = s
        PROVE  /\ Busy(t)' => t \in gone'[s].later
               /\ saving'[t].seen \subseteq gone'[s].given
    <3>1. Busy(t)' => UnderWay(t, s)
      BY <1>2, <2>3 DEF Busy, UnderWay
    <3>2. saving[t].seen \subseteq Given(s)
      BY <1>2, <2>3 DEF Given
    <3> QED
      BY <1>2, <2>1, <3>1, <3>2
  <2> QED
    BY <2>2, <2>3 DEF Followed
<1>8. cleaner'.sess = s /\ cleaner'.user = u /\ gone'[s].user = u
  BY <1>1, <1>2, <1>3 DEF Resting
<1> QED
  BY <1>4, <1>5, <1>6, <1>7, <1>8 DEF ForgetInv

LEMMA ForgetMemories ==
  ASSUME TypeInv, RowInv, ForgetInv, [Next]_vars, DeleteBySession
  PROVE  ForgetInv'
<1>1. /\ cleaner.pc = "memories" /\ UNCHANGED <<session, saving, learning>>
      /\ cleaner \in Cleaner /\ cleaner.sess \in SessionIds
      /\ gone \in [SessionIds -> Deletion]
  BY DEF DeleteBySession, sessionVars, TypeInv, TypeOK, MemoryTypeOK
<1>2. PICK u : u = cleaner.user
  OBVIOUS
<1>3. PICK s \in SessionIds : s = cleaner.sess
  BY <1>1
<1>4. gone[s].user = u /\ \A i \in SessionIds : Renewed(i) /\ Unlearned(i) /\ Followed(i)
  BY <1>1, <1>2, <1>3 DEF ForgetInv
<1>5. CASE cleaner' = Resting /\ UNCHANGED <<row, drifted, gone>>
  <2>1. cleaner'.pc = "idle"
    BY <1>5 DEF Resting
  <2>2. \A i \in SessionIds : Unlearned(i)'
    BY <1>4, <1>5, UnlearnedStays, FewerMemories
  <2>3. \A t \in Turns : Busy(t)' <=> Busy(t)
    BY <1>1 DEF Busy
  <2> QED
    BY <1>1, <1>5, <2>1, <2>2, <2>3, ForgetFrame
<1>6. CASE DeleteRows(OfSession(u, s), cleaner) /\ gone' = [gone EXCEPT ![s].kept = {}]
  <2>1. /\ cleaner'.pc = "vectors"
        /\ \A m \in Turns : row'[m] = IF m \in OfSession(u, s) THEN None ELSE row[m]
    BY <1>1, <1>6 DEF DeleteRows, Cleaner
  <2>2. \A i \in SessionIds :
          /\ gone'[i].user = gone[i].user /\ gone'[i].later = gone[i].later
          /\ gone'[i].given = gone[i].given /\ gone'[i].saved = gone[i].saved
          /\ gone'[i].kept = IF i = s THEN {} ELSE gone[i].kept
    BY <1>1, <1>6 DEF Deletion
  <2>3. ASSUME NEW i \in SessionIds PROVE Renewed(i)'
    <3>1. gone[i].later \subseteq gone'[i].later /\ session'[i] \in {None, session[i]}
      BY <1>1, <2>2
    <3> QED
      BY <1>4, <2>2, <3>1, RenewedStays
  <2>4. ASSUME NEW i \in SessionIds PROVE Unlearned(i)'
    <3>1. CASE i = s
      <4>1. gone'[s].user = u
        BY <1>4, <2>2
      <4>2. Memories(gone[s].user, s)' = {}
        BY <2>1, <4>1 DEF Memories, OfSession
      <4> QED
        BY <3>1, <4>2 DEF Unlearned
    <3>2. CASE i # s
      <4>1. \A m \in Turns : row'[m] \in {None, row[m]}
        BY <2>1
      <4>2. gone'[i].kept = gone[i].kept /\ gone[i].later \subseteq gone'[i].later
        BY <2>2, <3>2
      <4> QED
        BY <1>4, <2>2, <4>1, <4>2, UnlearnedStays, FewerMemories
    <3> QED
      BY <3>1, <3>2
  <2>5. ASSUME NEW i \in SessionIds PROVE Followed(i)'
    BY <1>1, <1>4, <2>2 DEF Followed, Busy
  <2> QED
    BY <2>1, <2>3, <2>4, <2>5 DEF ForgetInv
<1> QED
  BY <1>2, <1>3, <1>5, <1>6 DEF DeleteBySession

LEMMA ForgetStep ==
  ASSUME TypeInv, TypeInv', RowInv, ForgetInv, [Next]_vars
  PROVE  ForgetInv'
<1>1. /\ saving \in [Turns -> Saving] /\ cleaner \in Cleaner /\ DOMAIN learning = Turns
      /\ \A t \in Turns : learning[t] \in Learning
  BY DEF TypeInv, TypeOK, SessionTypeOK, MemoryTypeOK
<1>2. \A s \in SessionIds : Unlearned(s) /\ Followed(s)
  BY DEF ForgetInv
<1>3. ASSUME gone' = gone, \A m \in Turns : row'[m] \in {None, row[m]}
      PROVE  \A s \in SessionIds : Unlearned(s)'
  BY <1>2, <1>3, UnlearnedStays, FewerMemories
\* Rows go at most, and turns are left alone.
<1>4. ASSUME UNCHANGED <<session, saving, learning, gone>>,
             cleaner'.pc = "memories" => cleaner' = cleaner,
             \A m \in Turns : row'[m] \in {None, row[m]}
      PROVE  ForgetInv'
  <2>1. \A t \in Turns : Busy(t)' <=> Busy(t)
    BY <1>4 DEF Busy
  <2> QED
    BY <1>3, <1>4, <2>1, ForgetFrame
<1>5. ASSUME NEW t \in Turns, LearnStep(t), UNCHANGED <<sessionVars, gone, requests>> PROVE ForgetInv'
  <2>1. \A m \in Turns : learning'[m].pc \in {"begin", "locked"} => learning[m].pc \in {"begin", "locked"}
    <3>1. CASE WriteTransaction(t)
      <4>1. Written(t)' /\ \A m \in Turns \ {t} : learning'[m] = learning[m]
        BY <3>1, Writes
      <4> QED
        BY <4>1 DEF Written
    <3>2. CASE SyncVector(t)
      <4>1. learning[t].pc = "sync" /\ learning' = [learning EXCEPT ![t] = Continued(@)]
        BY <3>2 DEF SyncVector
      <4>2. Written(t)
        BY <4>1 DEF Written
      <4>3. Written(t)'
        BY <4>2, RowsAge
      <4> QED
        BY <1>1, <4>1, <4>3 DEF Written
    <3>3. CASE GetActiveFact(t) \/ WriteAgain(t) \/ WriteFails(t)
      <4>1. learning[t].pc \in {"begin", "locked"} /\ \A m \in Turns \ {t} : learning'[m] = learning[m]
        BY <1>1, <3>3 DEF GetActiveFact, WriteAgain, WriteFails
      <4> QED
        BY <4>1
    <3> QED
      BY <1>5, <3>1, <3>2, <3>3 DEF LearnStep
  <2>2. UNCHANGED <<session, saving, cleaner, gone>>
    BY <1>5 DEF LearnStep, GetActiveFact, WriteAgain, WriteTransaction, WriteFails, SyncVector, sessionVars
  <2>3. row' = row \/ WriteTransaction(t)
    BY <1>5 DEF LearnStep, GetActiveFact, WriteAgain, WriteFails, SyncVector
  <2>4. \A s \in SessionIds : Unlearned(s)'
    BY <1>3, <1>5, <2>2, <2>3, WriteRelearns
  <2>5. \A m \in Turns : Busy(m)' => Busy(m)
    BY <2>1, <2>2 DEF Busy
  <2> QED
    BY <2>2, <2>4, <2>5, ForgetFrame
<1>6. ASSUME NEW t \in Turns, Answer(t) PROVE ForgetInv'
  <2>1. /\ saving[t].pc = "run" /\ UNCHANGED <<session, row, cleaner, gone>>
        /\ saving'[t].sess = saving[t].sess /\ saving'[t].seen = saving[t].seen
        /\ saving'[t].pc \in {"ensure", "done"}
        /\ \A m \in Turns \ {t} : saving'[m] = saving[m] /\ learning'[m] = learning[m]
    BY <1>1, <1>6 DEF Answer, Saving
  <2>2. \A m \in Turns : Busy(m)' => Busy(m)
    BY <2>1 DEF Busy
  <2>3. \A m \in Turns : /\ saving'[m].sess = saving[m].sess
                         /\ saving[m].pc # "new" => saving'[m].pc # "new"
                         /\ saving'[m].seen \subseteq saving[m].seen
    BY <2>1
  <2> QED
    BY <1>3, <2>1, <2>2, <2>3, ForgetFrame
<1>7. ASSUME NEW u \in Users, DeleteMemories(u), UNCHANGED <<sessionVars, gone>> PROVE ForgetInv'
  <2>1. PICK ids : DeleteRows(ids, [Resting EXCEPT !.user = u])
    BY <1>7 DEF DeleteMemories
  <2>2. cleaner' = [[Resting EXCEPT !.user = u] EXCEPT !.pc = "vectors", !.ids = ids]
    BY <2>1 DEF DeleteRows
  <2>3. cleaner'.pc = "vectors"
    BY <2>2 DEF Resting
  <2>4. \A m \in Turns : row'[m] \in {None, row[m]}
    BY <2>1 DEF DeleteRows
  <2> QED
    BY <1>4, <1>7, <2>3, <2>4 DEF DeleteMemories, sessionVars
<1>8. ASSUME DeleteVectors, UNCHANGED <<sessionVars, gone, requests>> PROVE ForgetInv'
  <2>1. cleaner'.pc = "idle"
    BY <1>8 DEF DeleteVectors, Resting
  <2> QED
    BY <1>4, <1>8, <2>1 DEF DeleteVectors, sessionVars
<1>9. ASSUME UNCHANGED <<session, saving, row, learning, cleaner, gone>> PROVE ForgetInv'
  BY <1>4, <1>9
<1>10. CASE Restart
  <2>1. UNCHANGED <<session, row, gone>> /\ cleaner'.pc = "idle"
    BY <1>10, RestartRests DEF Restart
  <2>2. ASSUME NEW t \in Turns
        PROVE  /\ saving'[t].sess = saving[t].sess
               /\ saving[t].pc # "new" => saving'[t].pc # "new"
               /\ Busy(t)' => Busy(t)
               /\ saving'[t].seen \subseteq saving[t].seen
    <3>1. saving'[t] = IF saving[t].pc # "new" THEN Done(t)[t] ELSE NewTurn
      BY <1>10 DEF Restart, Asked
    <3>2. Done(t)[t] = [saving[t] EXCEPT !.pc = "done", !.seen = {}] /\ saving[t] \in Saving
      BY <1>1 DEF Done
    <3>3. saving[t].pc = "new" => saving[t] = NewTurn
      BY DEF TypeInv
    <3>4. ~Busy(t)'
      BY <1>10, RestartRests DEF Busy
    <3> QED
      BY <3>1, <3>2, <3>3, <3>4 DEF Saving
  <2> QED
    BY <1>3, <2>1, <2>2, ForgetFrame
<1>11. ASSUME RecallStep, UNCHANGED <<sessionVars, gone, requests>> PROVE ForgetInv'
  BY <1>9, <1>11 DEF RecallStep, Search, LoadRecall, EndRecall, sessionVars
<1>12. CASE UNCHANGED vars
  BY <1>9, <1>12 DEF vars, sessionVars, memoryVars
<1> QED
  BY <1>5, <1>6, <1>7, <1>8, <1>10, <1>11, <1>12,
     ForgetSaveStep, ForgetAsk, ForgetSave, ForgetDelete, ForgetMemories DEF Next
-----------------------------------------------------------------------------
(* Theorems.                                                               *)

LEMMA Invariant == Spec => []IInv
<1>1. Init => IInv
  BY TypeStart, OwnerStart, SummaryStart, RowStart, VectorStart, RecallStart, ForgetStart DEF IInv
<1>2. IInv /\ [Next]_vars => IInv'
  <2>1. SUFFICES ASSUME IInv, [Next]_vars PROVE IInv'
    OBVIOUS
  <2>2. TypeInv'
    BY <2>1, TypeStep DEF IInv
  <2> QED
    BY <2>1, <2>2, OwnerStep, SummaryStep, RowStep, VectorStep, RecallKept, ForgetStep DEF IInv
<1> QED
  BY <1>1, <1>2, PTL DEF Spec

\* The tables, the semantic store's payloads and the state of every goroutine
\* and request stay within their types, for any users, sessions, facts and
\* authorities and finitely many turns.
THEOREM TypeCorrect == Spec => []TypeOK
<1>1. IInv => TypeOK
  BY DEF IInv, TypeInv
<1> QED
  BY <1>1, Invariant, PTL

\* A session holds its owner's turns and a summary of them only, however
\* handlers, summaries, saves and deletions of users who share its identifier
\* interleave (lockSessionOwner, AppendMessages, UpdateSummary).
THEOREM OwnersKept == Spec => []OwnerIsKept
<1>1. IInv => OwnerIsKept
  BY DEF IInv, OwnerInv
<1> QED
  BY <1>1, Invariant, PTL

\* A summary made alone and without a failure is of the whole conversation
\* (saveTurnToSession).
THEOREM SummariesCurrent == Spec => []SummaryIsCurrent
<1>1. IInv => SummaryIsCurrent
  BY DEF IInv, SummaryInv, SummaryIsCurrent
<1> QED
  BY <1>1, Invariant, PTL

\* One active record per user and fact, and replaced records gave way to ones
\* of no less authority (writeTransaction).
THEOREM StrongerReplaces == Spec => []ReplacedByStronger
<1>1. IInv => ReplacedByStronger
  BY DEF IInv, RowInv
<1> QED
  BY <1>1, Invariant, PTL

\* Vectors say what their rows say unless a request failed or met another, and
\* never call an active memory superseded (syncVector, deleteVectors).
THEOREM VectorsFollow == Spec => []VectorsFollowRows
<1>1. IInv => VectorsFollowRows
  BY DEF IInv, VectorInv
<1> QED
  BY <1>1, Invariant, PTL

\* A recall injects nothing that was deleted, replaced or another user's when
\* it began (Recall, loadRecallCandidates).
THEOREM RecallLive == Spec => []RecalledIsLive
<1>1. IInv => RecalledIsLive
  BY DEF IInv, RecallInv
<1> QED
  BY <1>1, Invariant, PTL

\* Of a deleted session only turns that were under way then or were asked since
\* come back, with a summary read before or made of them, until a client saves
\* it again; and until they learn, the user who deleted it has no memory of it
\* but those there were, which are none once DeleteBySession succeeded
\* (APIQASessionDelete, EnsureSession, UpdateSummary, Write).
THEOREM Forgets == Spec => []DeletedIsForgotten
<1>1. IInv => DeletedIsForgotten
  BY DEF IInv, ForgetInv, DeletedIsForgotten, Renewed, Unlearned
<1> QED
  BY <1>1, Invariant, PTL
=============================================================================
