------------------------- MODULE ObservationIntake --------------------------
(***************************************************************************)
(* What the decision pipeline promises to the sensors, without threads:    *)
(* well-formed observations are accepted up to a bound and handled one by  *)
(* one in the order of acceptance; once shut, nothing more is accepted.    *)
(***************************************************************************)
EXTENDS Naturals, Sequences

CONSTANTS Bound,         \* most observations accepted and not yet handled
          Reports        \* the observations a sensor can hand in

VARIABLES backlog,       \* accepted, not yet handled
          open

intakeVars == <<backlog, open>>

IntakeInit ==
  /\ backlog = <<>>
  /\ open = TRUE

Accept(o) ==
  /\ open
  /\ o.wellFormed
  /\ Len(backlog) < Bound
  /\ backlog' = Append(backlog, o)
  /\ UNCHANGED open

Handle ==
  /\ backlog # <<>>
  /\ backlog' = Tail(backlog)
  /\ UNCHANGED open

Shut ==
  /\ open' = FALSE
  /\ UNCHANGED backlog

IntakeNext == (\E o \in Reports : Accept(o)) \/ Handle \/ Shut

IntakeSpec == IntakeInit /\ [][IntakeNext]_intakeVars
=============================================================================
