-------------------------- MODULE DirectorPromise --------------------------
(***************************************************************************)
(* What ibosh promises its user about the director, whatever the backend   *)
(* and however many commands run at once.                                  *)
(*                                                                         *)
(* The director is up or down.  What it has recorded in its store (its     *)
(* credentials, the cloud-config, stemcells) is kept across stops,         *)
(* crashes, upgrades and failed commands.  It is lost only while a destroy *)
(* the user has confirmed is in progress, and never under a director that  *)
(* is up.                                                                  *)
(***************************************************************************)

CONSTANT Content    \* what a director can record in its store

VARIABLES
  up,          \* is the director up?
  kept,        \* what the store holds
  condemned    \* has the user confirmed a destroy that is still in progress?

promiseVars == <<up, kept, condemned>>

PromiseTypeOK ==
  /\ up \in BOOLEAN
  /\ kept \subseteq Content
  /\ condemned \in BOOLEAN

PromiseInit ==
  /\ up = FALSE
  /\ kept = {}
  /\ condemned = FALSE

Launch ==
  /\ ~up
  /\ up' = TRUE
  /\ UNCHANGED <<kept, condemned>>

\* A stop, a crash, or the removal of its container for an upgrade.
Exit ==
  /\ up
  /\ up' = FALSE
  /\ UNCHANGED <<kept, condemned>>

Record ==
  /\ up
  /\ kept' \in SUBSET Content
  /\ kept \subseteq kept'
  /\ UNCHANGED <<up, condemned>>

\* A destroy is confirmed, or the last confirmed one ends.
Judge ==
  /\ condemned' = ~condemned
  /\ UNCHANGED <<up, kept>>

Wipe ==
  /\ condemned
  /\ ~up
  /\ kept' = {}
  /\ UNCHANGED <<up, condemned>>

PromiseNext == Launch \/ Exit \/ Record \/ Judge \/ Wipe

PromiseSpec == PromiseInit /\ [][PromiseNext]_promiseVars
============================================================================
