---------------------------- MODULE ToolRegistry ----------------------------
(***************************************************************************)
(* The catalog of tools that agent runs and MCP clients share.  It is an    *)
(* immutable value behind one atomic pointer: writers hold writeMu while    *)
(* they copy, change and publish it, readers load it once, so a publication *)
(* and a snapshot are one step each.  The platform registers its own tools  *)
(* when it starts; from then on the extensions of the application publish   *)
(* the complete set of read tools each of them wants, at start-up and       *)
(* whenever their configuration changes.                                   *)
(*                                                                         *)
(* A tool is who owns it, the revision that published its definition and    *)
(* handler, and its form: what it is to the MCP server.                     *)
(***************************************************************************)
EXTENDS Naturals

CONSTANTS
  Ids,          \* tool identifiers
  BuiltIn,      \* those the platform registers itself
  WriteIds,     \* those of them that propose write actions
  Owners,       \* extensions
  MaxRevision,  \* bound on the publications after start-up
  None          \* no tool, no owner

ASSUME IdsAssumption == BuiltIn \subseteq Ids /\ WriteIds \subseteq BuiltIn
ASSUME OwnersAssumption == None \notin Owners
ASSUME RevisionAssumption == MaxRevision \in Nat

VARIABLES
  revision,  \* of the published catalog, 0 when the platform starts to serve
  tools      \* the tool each identifier names, or None

registryVars == <<revision, tools>>

-----------------------------------------------------------------------------
(* Types.                                                                  *)

\* "untyped": its schema is made of alternatives only, which validateSchema
\* accepts.  A tool hidden from MCP clients does not differ from an open one here.
Forms == {"open", "untyped"}
Tool == [owner: Owners \cup {None}, since: 0..MaxRevision, form: Forms]
Catalog == [Ids -> Tool \cup {None}]

ASSUME NoneAssumption == None \notin Tool

RegistryTypeOK == revision \in 0..MaxRevision /\ tools \in Catalog

\* agent.NewRegistry and writeaction.RegisterBuiltins, before anything is served.
RegistryInit ==
  /\ revision = 0
  /\ tools = [i \in Ids |-> IF i \in BuiltIn THEN [owner |-> None, since |-> 0, form |-> "open"]
                            ELSE None]

-----------------------------------------------------------------------------
(* Publication.                                                            *)

Owned(o) == {i \in Ids : tools[i] # None /\ tools[i].owner = o}

\* reconcileReadSet's check of the identifiers an extension asks for.
MayPublish(o, wanted) == \A i \in DOMAIN wanted : tools[i] # None => tools[i].owner = o

\* The next catalog: the owner's other tools are gone, the wanted ones are new.
Reconciled(o, wanted) ==
  [i \in Ids |->
     IF i \in DOMAIN wanted THEN [owner |-> o, since |-> revision + 1, form |-> wanted[i]]
     ELSE IF i \in Owned(o) THEN None ELSE tools[i]]

\* ReadRegistry.Reconcile.  Nothing is published for an owner that has no tool
\* and wants none; a set that is refused changes nothing.
Reconcile(o) ==
  /\ revision < MaxRevision
  /\ \E ids \in SUBSET Ids : \E wanted \in [ids -> Forms] :
       /\ MayPublish(o, wanted)
       /\ ids # {} \/ Owned(o) # {}
       /\ tools' = Reconciled(o, wanted)
  /\ revision' = revision + 1

-----------------------------------------------------------------------------
(* Snapshots.                                                              *)

\* Policy.Allows: read tools always, write tools if the run may propose writes.
Allowed(writes) == {i \in Ids : i \in WriteIds => writes}

\* Registry.Snapshot, filtered to a set of identifiers.
Snapshot(ids) == [i \in Ids |-> IF i \in ids THEN tools[i] ELSE None]
=============================================================================
