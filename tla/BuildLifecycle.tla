--------------------------- MODULE BuildLifecycle ---------------------------
(***************************************************************************)
(* What the pipeline promises about a site, whoever drives it and however  *)
(* it is stopped and started: the stages are passed in order, nothing is   *)
(* completed or monitored without a stored plan, a stored plan is only     *)
(* given up by starting over from PLAN, and a pipeline that gave up on a   *)
(* stage goes on only after a request to do so has been taken, unless the  *)
(* record of its failures was lost.                                        *)
(***************************************************************************)
EXTENDS Naturals

CONSTANT MayForget   \* whether what the pipeline writes and reads may be lost

VARIABLES
  stage,       \* the stage the site is in
  plan,        \* whether it has a plan
  gaveUp,      \* whether it gave up on a stage that kept failing
  miscounted,  \* whether the record of its failures was lost
  pending      \* the number of requests nobody has looked at yet

vars == <<stage, plan, gaveUp, miscounted, pending>>
site == <<stage, plan>>
record == <<gaveUp, miscounted>>

Init ==
  /\ stage = "PLAN" /\ plan = FALSE
  /\ gaveUp = FALSE /\ miscounted = FALSE /\ pending = 0

\* Requests come in, and are forgotten when the process or the worker ends.
Request == pending' = pending + 1 /\ UNCHANGED <<site, record>>
Restart == pending' = 0 /\ UNCHANGED <<site, record>>

\* Taking one: it asks to go on, to build afresh or to work in a change, or it
\* is about something else.
Take == pending > 0 /\ pending' = pending - 1
Asked == gaveUp' = FALSE /\ miscounted' = FALSE
GoOn      == Take /\ Asked /\ UNCHANGED site
StartOver == Take /\ Asked /\ stage' = "PLAN" /\ plan' = FALSE
Change    == Take /\ Asked /\ stage' = "UPDATE_PLAN" /\ UNCHANGED plan
Ignore    == Take /\ UNCHANGED <<site, record>>

MayBuild == ~gaveUp \/ miscounted

\* A plan is stored (again: storing it twice is harmless) before BUILD starts.
StorePlan ==
  /\ MayBuild /\ stage = "PLAN" /\ plan' = TRUE
  /\ UNCHANGED <<stage, record, pending>>

After(s) == CASE s \in {"PLAN", "UPDATE_PLAN"} -> "BUILD"
              [] s = "BUILD"                   -> "COMPLETE"
              [] s = "COMPLETE"                -> "MONITORING"
              [] OTHER                         -> s

Proceed ==
  /\ MayBuild
  /\ plan \/ (stage = "PLAN" /\ MayForget)
  /\ stage' = After(stage)
  /\ UNCHANGED <<plan, record, pending>>

Stop   == gaveUp' = TRUE /\ UNCHANGED <<site, miscounted, pending>>
Forget == MayForget /\ miscounted' = TRUE /\ UNCHANGED <<site, gaveUp, pending>>

Next ==
  \/ Request \/ Restart \/ GoOn \/ StartOver \/ Change \/ Ignore
  \/ StorePlan \/ Proceed \/ Stop \/ Forget

Spec == Init /\ [][Next]_vars
=============================================================================
