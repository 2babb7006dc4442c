---------------------------- MODULE AtomicStore ----------------------------
(***************************************************************************)
(* What the super block chain promises its users: a single durable cell.   *)
(*                                                                         *)
(* An operation offers one value.  At some point between its call and its  *)
(* return the cell may switch, in one step, from the old value to the      *)
(* offered one; it never holds anything else.  An operation that reports   *)
(* success has switched the cell.  One that reports a failure, or that a   *)
(* loss of power cuts short, leaves the old value or the offered one.      *)
(***************************************************************************)
CONSTANTS
    Value,      \* the values an operation may offer
    Nothing     \* no value: what an unformatted volume holds, and "no operation"

VARIABLES
    stored,     \* what locate() finds on the medium
    pending,    \* the value of the operation that is running, or Nothing
    outcome     \* how the last finished operation ended

storeVars == <<stored, pending, outcome>>

Outcome == {"none", "ok", "failed", "cut"}

StoreTypeOK ==
    /\ stored \in Value \union {Nothing}
    /\ pending \in Value \union {Nothing}
    /\ outcome \in Outcome

StoreInit ==
    /\ stored = Nothing
    /\ pending = Nothing
    /\ outcome = "none"

(* A call of create() or save(). *)
Begin(v) ==
    /\ pending = Nothing
    /\ pending' = v
    /\ outcome' = "none"
    /\ UNCHANGED stored

(* The one write that makes the offered value the stored one. *)
Commit ==
    /\ pending # Nothing
    /\ UNCHANGED <<pending, outcome>>
    /\ stored' = pending

Succeed ==
    /\ pending # Nothing
    /\ pending' = Nothing
    /\ outcome' = "ok"
    /\ stored = pending
    /\ UNCHANGED stored

(* The write that was to switch the cell may have done so and yet be        *)
(* reported as failed.                                                      *)
Fail ==
    /\ pending # Nothing
    /\ pending' = Nothing
    /\ outcome' = "failed"
    /\ stored' \in {stored, pending}

(* Power may be lost whether or not an operation is running. *)
Cut ==
    /\ pending' = Nothing
    /\ outcome' = "cut"
    /\ UNCHANGED stored

(* A restart finds the volume: nothing stored changes. *)
Recover ==
    /\ pending = Nothing
    /\ outcome' = "none"
    /\ UNCHANGED <<stored, pending>>

StoreNext ==
    \/ \E v \in Value : Begin(v)
    \/ Commit
    \/ Succeed
    \/ Fail
    \/ Cut
    \/ Recover

StoreSpec == StoreInit /\ [][StoreNext]_storeVars
=============================================================================
