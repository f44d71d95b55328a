---------------------------- MODULE MCStorePaths ----------------------------
(***************************************************************************)
(* Instances of StorePaths: two processes, and the jobs each run asks      *)
(* about.  Path 1 refers to 2 and 3, path 2 to 3, so that a registration   *)
(* can miss a reference and a delete can meet a referrer; two outputs are  *)
(* the fewest two processes can lock in different orders.                  *)
(***************************************************************************)
EXTENDS StorePaths

Job(kind, paths, inputs) == [kind |-> kind, paths |-> paths, inputs |-> inputs]

MCReferences == [path \in Paths |-> {reference \in Paths \cap {2, 3} : path < reference}]

\* Every kind of job that keeps to the path locks, with each path produced
\* in more than one way; evaluation writes 3, which no cache offers.
SafetyJobs ==
  {Job("build", {1, 2}, {3}), Job("substitute", {1, 2}, {}), Job("sources", {3}, {}),
   Job("writes", {3}, {}), Job("delete", {1, 3}, {}), Job("collect", {}, {})}

\* Jobs that take both locks, the collector's, and none.
LivenessJobs ==
  {Job("build", {1, 2}, {}), Job("substitute", {1, 2}, {}), Job("drvs", {2}, {}),
   Job("collect", {}, {})}

\* One build, interrupted when it likes.
BuildJobs == {Job("build", {1}, {})}

\* What one process's evaluation wrote, another substitutes.
WriteJobs == {Job("writes", {1}, {}), Job("substitute", {1}, {})}
=============================================================================
