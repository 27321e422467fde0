----------------------------- MODULE McpSurface -----------------------------
(***************************************************************************)
(* The MCP endpoint (DynamicHandler).  It keeps a server built from one     *)
(* snapshot of the catalog and the revision it believes that snapshot to    *)
(* have.  Every request first compares that label with the registry and     *)
(* rebuilds the server when they differ, under an exclusive lock; then it   *)
(* is served by the server it finds.  The revision is read before the       *)
(* snapshot is taken, so the two may belong to different publications.      *)
(***************************************************************************)
EXTENDS ToolRegistry

CONSTANT Clients  \* requests being served at the same time

VARIABLES
  surface,  \* the revision the handler claims and the one it was built from
  lock,     \* the request that holds the handler's write lock, or None
  request   \* per client: where its request is and the revisions it knows

mcpVars == <<surface, lock, request>>

ASSUME ClientsAssumption == None \notin Clients

-----------------------------------------------------------------------------
(* Types.                                                                  *)

Revisions == 0..MaxRevision
RequestPc == {"idle", "compare", "lock", "build", "serve", "served"}
\* arrived: the registry's revision when the request came in; noted: the one
\* its own reading returned; stuck: the catalog it met cannot be served;
\* got: the revision whose tools served it.
Request == [pc: RequestPc, arrived: Revisions, noted: Revisions, stuck: BOOLEAN, got: Revisions]
NoRequest == [pc |-> "idle", arrived |-> 0, noted |-> 0, stuck |-> FALSE, got |-> 0]

McpTypeOK ==
  /\ surface \in [label: Revisions, since: Revisions]
  /\ lock \in Clients \cup {None}
  /\ request \in [Clients -> Request]

\* NewDynamicHandler builds the first server from the built-in tools.
McpInit ==
  /\ surface = [label |-> 0, since |-> 0]
  /\ lock = None
  /\ request = [c \in Clients |-> NoRequest]

-----------------------------------------------------------------------------
(* One request.                                                            *)

At(c, pc) == request[c].pc = pc
To(c, pc) == request' = [request EXCEPT ![c].pc = pc]

\* ServeHTTP is called, and refresh reads the registry's revision.
Arrive(c) ==
  /\ At(c, "idle") \/ At(c, "served")
  /\ request' = [request EXCEPT ![c] = [pc |-> "compare", arrived |-> revision, noted |-> revision,
                                            stuck |-> FALSE, got |-> 0]]
  /\ UNCHANGED <<surface, lock>>

\* refresh compares it with the handler's, which waits for a rebuild under way.
Compare(c) ==
  /\ At(c, "compare") /\ lock = None
  /\ To(c, IF request[c].noted = surface.label THEN "serve" ELSE "lock")
  /\ UNCHANGED <<surface, lock>>

\* rebuild takes the lock and reads the revision again; another request may
\* have rebuilt the server meanwhile.
Rebuild(c) ==
  /\ At(c, "lock") /\ lock = None
  /\ IF revision = surface.label
       THEN To(c, "serve") /\ UNCHANGED lock
       ELSE /\ lock' = c
            /\ request' = [request EXCEPT ![c].pc = "build", ![c].noted = revision]
  /\ UNCHANGED surface

\* schemaWithTrace refuses a schema without properties, and with it the server.
Servable == \A i \in Ids \ WriteIds : tools[i] # None => tools[i].form # "untyped"

\* Broken variant: the snapshot is taken first and labelled when the server is ready.
LabelledLate(noted) == [label |-> revision, since |-> noted]

\* What rebuild keeps when the revision it noted was `noted`.
Labelled(noted) == [label |-> noted, since |-> revision]

\* BuildMCP takes its snapshot; on an error the old server stays.
Build(c) ==
  /\ At(c, "build")
  /\ surface' = IF Servable THEN Labelled(request[c].noted) ELSE surface
  /\ request' = [request EXCEPT ![c].pc = "serve", ![c].stuck = ~Servable]
  /\ lock' = None

\* The request is handed to the server found under the read lock, which keeps
\* its snapshot whatever is published or rebuilt meanwhile.
Serve(c) ==
  /\ At(c, "serve") /\ lock = None
  /\ request' = [request EXCEPT ![c].pc = "served", ![c].got = surface.since]
  /\ UNCHANGED <<surface, lock>>

McpNext ==
  \E c \in Clients : Arrive(c) \/ Compare(c) \/ Rebuild(c) \/ Build(c) \/ Serve(c)

-----------------------------------------------------------------------------
(* Properties.                                                             *)

\* A client never works with a catalog older than the one that was published
\* when its request came in, whatever is published while servers are rebuilt,
\* unless the catalog its own rebuild met could not be turned into a server.
\* (DynamicHandler.refresh and rebuild, which label a server with a revision
\* read before its snapshot.)
SurfaceIsCurrent ==
  \A c \in Clients : At(c, "served") => request[c].stuck \/ request[c].got >= request[c].arrived
=============================================================================
