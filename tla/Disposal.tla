------------------------------- MODULE Disposal -------------------------------
(***************************************************************************)
(* What a migration promises about the objects of an export, whatever the  *)
(* order they are handed over in: each is settled once, a BuildConfig by   *)
(* replacing it or by saying why it was not, anything else by leaving it   *)
(* alone, and only an object that cannot be read stops the migration.      *)
(* Migration is shown to implement it.                                     *)
(***************************************************************************)

CONSTANTS
  IsBuildConfig(_),
  Readable(_),     \* whether an object can be read as what it claims to be
  BestEffort(_)    \* whether an object may be kept without saying why

VARIABLES
  fate,     \* for each object of the export, what became of it
  stopped   \* whether the migration was given up

vars == <<fate, stopped>>

Fates(o) ==
  CASE ~IsBuildConfig(o) -> {"kept"}
    [] IsBuildConfig(o) /\ BestEffort(o) -> {"replaced", "annotated", "kept"}
    [] OTHER -> {"replaced", "annotated"}

Untouched(fates) == \A o \in DOMAIN fates : fates[o] = "pending"
AllSettled == \A o \in DOMAIN fate : fate[o] # "pending"

Init == Untouched(fate) /\ stopped = FALSE

Settle ==
  /\ ~stopped
  /\ \E o \in DOMAIN fate :
       /\ fate[o] = "pending" /\ (IsBuildConfig(o) => Readable(o))
       /\ \E new \in Fates(o) : fate' = [fate EXCEPT ![o] = new]
  /\ UNCHANGED stopped

GiveUp ==
  /\ ~stopped
  /\ \E o \in DOMAIN fate : fate[o] = "pending" /\ IsBuildConfig(o) /\ ~Readable(o)
  /\ stopped' = TRUE
  /\ UNCHANGED fate

\* Another migration, of another export, once everything is settled.
Restart == AllSettled /\ ~stopped /\ Untouched(fate') /\ UNCHANGED stopped

Next == Settle \/ GiveUp \/ Restart

Spec == Init /\ [][Next]_vars
=============================================================================
