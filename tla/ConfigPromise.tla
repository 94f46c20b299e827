--------------------------- MODULE ConfigPromise ----------------------------
(***************************************************************************)
(* What the management API promises of one configuration write: a request  *)
(* takes effect once, in one step before its answer, on the part of the    *)
(* configuration it names; or it is refused and changes nothing; or it is  *)
(* given up, and then it takes effect later, once, or never.               *)
(***************************************************************************)
CONSTANTS Request,
          Effect(_, _),   \* Effect(op, c): configuration c after operation op
          Initials        \* the configurations at the start

VARIABLES conf,    \* the configuration
          want,    \* want[r]: the operation of request r
          stage    \* stage[r]: "open", "done", "ok", "no", "doubt" or "lost"

Init ==
    /\ conf \in Initials
    /\ stage = [r \in Request |-> "open"]

Moves(r, from, to) == stage[r] = from /\ stage' = [stage EXCEPT ![r] = to]

TakeEffect(r) ==
    /\ Moves(r, "open", "done") \/ Moves(r, "doubt", "lost")
    /\ conf' = Effect(want[r], conf)
    /\ UNCHANGED want

Answer(r) ==
    /\ Moves(r, "done", "ok") \/ Moves(r, "open", "no")
    /\ UNCHANGED <<conf, want>>

GiveUp(r) ==
    /\ Moves(r, "open", "doubt") \/ Moves(r, "open", "lost") \/ Moves(r, "doubt", "lost")
    /\ UNCHANGED <<conf, want>>

Next == \E r \in Request : TakeEffect(r) \/ Answer(r) \/ GiveUp(r)

Spec == Init /\ [][Next]_<<conf, want, stage>>
=============================================================================
