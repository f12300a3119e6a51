-------------------------- MODULE ExperimentSession --------------------------
(***************************************************************************)
(* What the gateway manager promises about experiments, without threads,   *)
(* locks or steps: the gateway is used by one session at a time, an        *)
(* experiment or the auto tests.  The session takes its resources, the     *)
(* expiration Timer last, and an experiment ends only once everything that *)
(* runs on its behalf is stopped.  The next session begins with nothing,   *)
(* or with a serial redirection that auto tests abandoned.                 *)
(***************************************************************************)

CONSTANTS Exps, NoExp

VARIABLES
  kind,   \* "none", "experiment" or "tests": who uses the gateway
  owner,  \* the experiment, or NoExp
  held    \* the resources in use

vars == <<kind, owner, held>>

(* Records are written to; the others run: a serial redirection and a Timer. *)
Records   == {"files", "log"}
Resources == Records \cup {"redirection", "timer"}

TypeOK ==
  /\ kind \in {"none", "experiment", "tests"}
  /\ owner \in Exps \cup {NoExp}
  /\ held \subseteq Resources

Init ==
  /\ kind = "none"
  /\ owner = NoExp
  /\ held = {}

(* An experiment begins on a gateway nobody uses. *)
Begin(e) ==
  /\ kind = "none"
  /\ held \subseteq {"redirection"}
  /\ kind' = "experiment"
  /\ owner' = e
  /\ held' = held

(* The Timer is armed when all the rest is there.  (The redirection has no  *)
(* such order: auto tests run during an experiment start one too.)          *)
Take(R) ==
  /\ kind = "experiment"
  /\ "timer" \in R => Resources \ {"timer"} \subseteq held
  /\ held' = held \cup R
  /\ UNCHANGED <<kind, owner>>

(* Something that runs is stopped. *)
Drop(r) ==
  /\ kind = "experiment"
  /\ r \notin Records
  /\ held' = held \ {r}
  /\ UNCHANGED <<kind, owner>>

(* Nothing runs any more. *)
End ==
  /\ kind = "experiment"
  /\ held \subseteq Records
  /\ kind' = "none"
  /\ owner' = NoExp
  /\ held' = {}

BeginTests ==
  /\ kind = "none"
  /\ held = {}
  /\ kind' = "tests"
  /\ held' = {"redirection"}
  /\ owner' = owner

EndTests ==
  /\ kind = "tests"
  /\ kind' = "none"
  /\ held' \in {{}, held}
  /\ owner' = owner

Next ==
  \/ \E e \in Exps : Begin(e)
  \/ \E R \in SUBSET Resources : Take(R)
  \/ \E r \in Resources : Drop(r)
  \/ End
  \/ BeginTests
  \/ EndTests

Spec == Init /\ [][Next]_vars
=============================================================================
