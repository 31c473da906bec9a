---------------------------- MODULE Activations ----------------------------
(***************************************************************************)
(* What a PeriodicThread promises.  An activation is announced first, and  *)
(* only while its thread is wanted.  If the thread is still wanted when it *)
(* then lies down, a whole period passes before it is activated, and       *)
(* nothing cuts that pause short; if it was stopped before it lay down,    *)
(* there is no pause and the announced activation comes at once.  After    *)
(* Stop that activation is the only one to follow.                         *)
(***************************************************************************)
EXTENDS Integers

CONSTANTS
  Object,   \* the periodic threads
  Pause     \* their period, in ticks

VARIABLES
  wanted,   \* those that are not terminated
  phase,    \* of each: "between" activations, "announced", "due", "active"
  left,     \* ticks of its pause that are still to come
  clock     \* ticks, modulo 2

MovesOn(o, from, to) ==
  /\ phase[o] = from
  /\ phase' = [phase EXCEPT ![o] = to]
  /\ UNCHANGED <<wanted, clock>>

Announce(o) == o \in wanted /\ MovesOn(o, "between", "announced") /\ UNCHANGED left

Rest(o) ==
  /\ o \in wanted
  /\ MovesOn(o, "announced", "due")
  /\ left' = [left EXCEPT ![o] = Pause]

(* It was stopped after the announcement: no pause.                        *)
Hurry(o) == o \notin wanted /\ MovesOn(o, "announced", "due") /\ UNCHANGED left

Activate(o) == left[o] = 0 /\ MovesOn(o, "due", "active") /\ UNCHANGED left

Done(o) == MovesOn(o, "active", "between") /\ UNCHANGED left

(* Every tick counts, and for every pause that has begun.                  *)
Tick ==
  /\ clock' = 1 - clock
  /\ left' = [o \in Object |-> IF left[o] > 0 THEN left[o] - 1 ELSE 0]
  /\ UNCHANGED <<wanted, phase>>

(* It is terminated, which leaves a pause as long as it is.                *)
Stop(o) ==
  /\ wanted' = wanted \ {o}
  /\ UNCHANGED <<phase, left, clock>>

(* Another object in its place.                                            *)
Renew(o) ==
  /\ phase[o] = "between"
  /\ wanted' = wanted \cup {o}
  /\ UNCHANGED <<phase, left, clock>>

ActivationsInit ==
  /\ wanted = {}
  /\ phase = [o \in Object |-> "between"]
  /\ left = [o \in Object |-> 0]
  /\ clock = 0

ActivationsNext ==
  \/ \E o \in Object :
       \/ Announce(o) \/ Rest(o) \/ Hurry(o) \/ Activate(o) \/ Done(o)
       \/ Stop(o) \/ Renew(o)
  \/ Tick

ActivationsSpec == ActivationsInit /\ [][ActivationsNext]_<<wanted, phase, left, clock>>

=============================================================================
