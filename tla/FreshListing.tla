---------------------------- MODULE FreshListing ----------------------------
(***************************************************************************)
(* What a client of the daemon may rely on when it lists directories: an   *)
(* answer is never older than what the client had already been told had    *)
(* changed when it asked.  A source is anything a listing depends on (the  *)
(* directory itself, the ignore rules); each source has a version, bumped  *)
(* by every change on disk.                                                *)
(***************************************************************************)
EXTENDS Integers

CONSTANTS
  Requests,   \* list requests a client may issue
  Sources     \* versioned things a listing is computed from

VARIABLES
  ver,        \* ver[x]: version of source x on disk
  announced,  \* announced[x]: newest version an fs_event has told the client of
  asks        \* asks[r]: what is known of request r

vars == <<ver, announced, asks>>

Versions == [Sources -> Nat]

None == [x \in Sources |-> -1]

\* floor: what was announced when the request was made (on the sources the
\* listing uses); seen: the versions the answer was computed from.
Idle == [st |-> "idle", uses |-> {}, floor |-> None, seen |-> None]

Init ==
  /\ ver = [x \in Sources |-> 0]
  /\ announced = [x \in Sources |-> 0]
  /\ asks = [r \in Requests |-> Idle]

\* Some sources change on disk.
Change ==
  /\ ver' \in Versions /\ \A x \in Sources : ver'[x] \in {ver[x], ver[x] + 1}
  /\ UNCHANGED <<announced, asks>>

\* The client receives an fs_event.
Announce ==
  /\ announced' \in Versions
  /\ \A x \in Sources : announced[x] <= announced'[x] /\ announced'[x] <= ver[x]
  /\ UNCHANGED <<ver, asks>>

\* The client asks for a listing that depends on the sources in uses.
Ask(r, uses) ==
  /\ asks[r].st # "asked"
  /\ asks' = [asks EXCEPT ![r] =
       [st |-> "asked", uses |-> uses, seen |-> None,
        floor |-> [x \in Sources |-> IF x \in uses THEN announced[x] ELSE 0]]]
  /\ UNCHANGED <<ver, announced>>

\* The answer reflects at least what had been announced, at most what is there.
Answer(r) ==
  /\ asks[r].st = "asked"
  /\ asks' = [asks EXCEPT ![r] =
       [st |-> "answered", uses |-> {}, floor |-> None, seen |-> asks'[r].seen]]
  /\ asks'[r].seen \in [Sources -> Int]
  /\ \A x \in asks[r].uses :
       asks[r].floor[x] <= asks'[r].seen[x] /\ asks'[r].seen[x] <= ver[x]
  /\ UNCHANGED <<ver, announced>>

\* Cancelled or failed: no listing is delivered.
Drop(r) ==
  /\ asks[r].st = "asked"
  /\ asks' = [asks EXCEPT ![r] = [Idle EXCEPT !.st = "dropped"]]
  /\ UNCHANGED <<ver, announced>>

Next ==
  \/ Change
  \/ Announce
  \/ \E r \in Requests :
       (\E uses \in SUBSET Sources : Ask(r, uses)) \/ Answer(r) \/ Drop(r)

Spec == Init /\ [][Next]_vars
=============================================================================
