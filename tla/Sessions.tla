------------------------------ MODULE Sessions ------------------------------
(***************************************************************************)
(* Conversations and their messages.  A session is a row with an owner, a   *)
(* list of turns and a rolling summary.  Identifiers come from clients, so  *)
(* two users may use the same one.  When a run has ended well the handler   *)
(* that streamed it ensures the session, appends the turn and starts a      *)
(* goroutine that summarises all of it; clients save whole sessions and     *)
(* delete them meanwhile.  Each store operation is one MySQL transaction    *)
(* that holds the session's row.                                            *)
(*                                                                         *)
(* A turn (a question and its answer, appended together) is one element;    *)
(* a summary is the set of the turns it was made of.                        *)
(***************************************************************************)
EXTENDS Naturals, Sequences, FiniteSets

CONSTANTS
  Users,       \* authenticated users
  SessionIds,  \* session identifiers clients use
  Turns,       \* bound on the runs
  None         \* no session, no record

ASSUME TurnsAssumption == IsFiniteSet(Turns) /\ None \notin Users \cup SessionIds \cup Turns

VARIABLES
  session,  \* the row of each session, or None
  saving,   \* per turn: the handler that saves it, then its summary goroutine
  muddled   \* history: sessions whose last summary was not made in peace

sessionVars == <<session, saving, muddled>>

-----------------------------------------------------------------------------
(* Types.                                                                  *)

Session == [owner: Users, turns: Seq(Turns), summary: SUBSET Turns]
ASSUME NoSessionAssumption == None \notin Session

SavePc == {"new", "run", "ensure", "append", "read", "summarize", "done"}
Saving == [pc: SavePc, user: Users \cup {None}, sess: SessionIds \cup {None},
           seen: SUBSET Turns]
NewTurn == [pc |-> "new", user |-> None, sess |-> None, seen |-> {}]

TurnsOf(q) == {q[i] : i \in DOMAIN q}

SessionTypeOK ==
  /\ \A s \in SessionIds : session[s] = None \/ session[s] \in Session
  /\ DOMAIN session = SessionIds
  /\ saving \in [Turns -> Saving]
  /\ muddled \subseteq SessionIds

SessionInit ==
  /\ session = [s \in SessionIds |-> None]
  /\ saving = [t \in Turns |-> NewTurn]
  /\ muddled = {}

Existing == {s \in SessionIds : session[s] # None}
Done(t) == [saving EXCEPT ![t].pc = "done", ![t].seen = {}]
Summarizing(s) == {t \in Turns : saving[t].sess = s /\ saving[t].pc \in {"read", "summarize"}}

-----------------------------------------------------------------------------
(* The session store.                                                      *)

\* lockSessionOwner: the session is there and the user's.
Owns(u, s) == session[s] # None /\ session[s].owner = u

\* Broken variant: the session is inserted without its user.
CreatedUnowned(u) == [owner |-> None, turns |-> <<>>, summary |-> {}]

Created(u) == [owner |-> u, turns |-> <<>>, summary |-> {}]

\* A run's streaming handler saves the turn of a session: EnsureSession, ...
EnsureSession(t) ==
  LET u == saving[t].user
      s == saving[t].sess
  IN /\ saving[t].pc = "ensure"
     /\ \/ /\ session[s] = None
           /\ session' = [session EXCEPT ![s] = Created(u)]
           /\ saving' = [saving EXCEPT ![t].pc = "append"]
           /\ muddled' = IF Summarizing(s) = {} THEN muddled ELSE muddled \cup {s}
        \/ /\ Owns(u, s)
           /\ saving' = [saving EXCEPT ![t].pc = "append"]
           /\ UNCHANGED <<session, muddled>>
        \/ saving' = Done(t) /\ UNCHANGED <<session, muddled>>   \* another's, or an error

\* Broken variant: AppendMessages trusts EnsureSession for the owner.
AppendableIfThere(u, s) == session[s] # None

Appendable(u, s) == Owns(u, s)

\* ... then AppendMessages, in a transaction of its own,
AppendMessages(t) ==
  LET u == saving[t].user
      s == saving[t].sess
  IN /\ saving[t].pc = "append"
     /\ \/ /\ Appendable(u, s)
           /\ session' = [session EXCEPT ![s].turns = Append(@, t)]
           /\ saving' = [saving EXCEPT ![t].pc = "read"]
           /\ muddled' = IF Summarizing(s) = {} THEN muddled \ {s} ELSE muddled \cup {s}
        \/ saving' = Done(t) /\ UNCHANGED <<session, muddled>>

\* Broken variant: the summary is made of the messages the agent was shown.
SummarizedRecent(q) == {q[i] : i \in {n \in DOMAIN q : n = Len(q)}}

Summarized(q) == TurnsOf(q)

\* ... and the goroutine: GetFullSession, GeneratePersistentSummary,
GetFullSession(t) ==
  LET s == saving[t].sess IN
  /\ saving[t].pc = "read"
  /\ \/ /\ Owns(saving[t].user, s) /\ session[s].turns # <<>>
        /\ saving' = [saving EXCEPT ![t].pc = "summarize",
                                    ![t].seen = Summarized(session[s].turns)]
        /\ UNCHANGED muddled
     \/ saving' = Done(t) /\ muddled' = muddled \cup ({s} \cap Existing)
  /\ UNCHANGED session

\* ... UpdateSummary, unless the model or the statement failed.
UpdateSummary(t) ==
  LET s == saving[t].sess IN
  /\ saving[t].pc = "summarize"
  /\ saving' = Done(t)
  /\ \/ /\ Owns(saving[t].user, s)
        /\ session' = [session EXCEPT ![s].summary = saving[t].seen]
        /\ UNCHANGED muddled
     \/ muddled' = muddled \cup ({s} \cap Existing) /\ UNCHANGED session

\* What a client may send of a conversation: turns of the user's, some
\* perhaps missing, the ones it knew when it last loaded the session.
Conversation(u, s) ==
  LET own == {t \in Turns : saving[t].user = u /\ saving[t].sess = s}
  IN {q \in UNION {[1..n -> own] : n \in 0..Cardinality(own)} :
        \A i, k \in DOMAIN q : q[i] = q[k] => i = k}

\* A client saves the session as a whole, with the summary it has or none.
Save(u, s) ==
  /\ session[s] = None \/ Owns(u, s)
  /\ \E q \in Conversation(u, s),
        summary \in {{}} \cup (IF Owns(u, s) THEN {session[s].summary} ELSE {}) :
       session' = [session EXCEPT ![s] = [owner |-> u, turns |-> q, summary |-> summary]]
  /\ muddled' = muddled \cup {s}
  /\ UNCHANGED saving

\* SessionStore.Delete.
DeleteSession(u, s) ==
  /\ Owns(u, s)
  /\ session' = [session EXCEPT ![s] = None]
  /\ muddled' = muddled \ {s}
  /\ UNCHANGED saving

SaveStep(t) ==
  EnsureSession(t) \/ AppendMessages(t) \/ GetFullSession(t) \/ UpdateSummary(t)

-----------------------------------------------------------------------------
(* Properties.                                                             *)

\* A session holds turns and a summary of its owner only, although identifiers
\* are shared, handlers check the owner in one transaction and append in
\* another, and summaries arrive after the session was deleted and made again
\* by somebody else (lockSessionOwner, UpdateSummary).
OwnerIsKept ==
  \A s \in SessionIds : session[s] # None =>
    \A t \in TurnsOf(session[s].turns) \cup session[s].summary :
      saving[t].user = session[s].owner

\* When the last turn's summary was made alone and did not fail, the summary
\* is of the whole conversation; two goroutines at once may finish in either
\* order (saveTurnToSession).
SummaryIsCurrent ==
  \A s \in SessionIds \ muddled :
    session[s] # None /\ Summarizing(s) = {} =>
      session[s].summary = TurnsOf(session[s].turns)
=============================================================================
