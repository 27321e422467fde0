---------------------------- MODULE MCWorkspace ----------------------------
(* An instance of Workspace for TLC: one flow whose front matter has an      *)
(* identifier of its own, and texts of one and of two chunks.                *)
EXTENDS Workspace, TLC

MCFrontId == [f \in Flows |-> CHOOSE a \in Aliases : TRUE]
MCChunks == [t \in 1..MaxText |-> IF t = 1 THEN MaxChunks ELSE 1]

\* The third revision takes the second one back.
MCDigest == [v \in 1..MaxCommits |-> IF v = 2 THEN 2 ELSE 1]

\* Bounds: every revision is checked out before the next one, uploads have two
\* texts (a third would be of one chunk as well), and once there is an upload or
\* the last revision, the last operation waits until another has ended.
Uploaded == \E d \in Uploads : row[d].text # 0 \/ \E j \in Jobs : job[j].text[d] # 0
Committed == \E r \in Repos : origin[r] = MaxCommits
OneIsOver == started < MaxOps \/ \E j \in Jobs : job[j].op = "none"

Bounded ==
  /\ \A r \in Repos : origin[r] <= tree[r] + 1
  /\ \A j \in Jobs, d \in Uploads : job[j].text[d] <= 2
  /\ Uploaded \/ Committed => OneIsOver

\* Jobs are alike, and only safety properties are checked.
JobSymmetry == Permutations(Jobs)
=============================================================================
