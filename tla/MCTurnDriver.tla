---------------------------- MODULE MCTurnDriver -----------------------------
(* Small instances of TurnDriver.                                            *)
EXTENDS TurnDriver, TLC

CONSTANTS t1, t2, t3, r1, r2, r3, u1, u2, u3

\* Every turn draws ids of its own.
OwnResponseIds == (t1 :> {r1}) @@ (t2 :> {r2}) @@ (t3 :> {r3})
OwnTurnIds == (t1 :> {u1}) @@ (t2 :> {u2}) @@ (t3 :> {u3})

\* The second turn may draw the ids of the first.
SharedResponseIds == (t1 :> {r1}) @@ (t2 :> {r1, r2})
SharedTurnIds == (t1 :> {u1}) @@ (t2 :> {u1, u2})

\* Turns with ids of their own are interchangeable, each with its ids.
Renaming(p) ==
  [x \in {t1, t2, t3, r1, r2, r3, u1, u2, u3} |->
     CASE x \in Turns -> p[x]
       [] x \in ResponseIds -> CHOOSE r \in OwnResponseIds[p[CHOOSE t \in Turns : x \in OwnResponseIds[t]]] : TRUE
       [] x \in TurnIds -> CHOOSE u \in OwnTurnIds[p[CHOOSE t \in Turns : x \in OwnTurnIds[t]]] : TRUE]
TurnSymmetry == {Renaming(p) : p \in Permutations({t1, t2, t3})}

\* The trees of three turns: of the ways to end without completing, the
\* failure of the upstream and the loss of the client stand for all.
OneWayToFail ==
  \A t \in Turns :
    /\ task[t].code \in {"none", "upstream_error", "internal_error"}
    /\ pc[t] # "refused"
    /\ pc[t] = "dropped" => task[t].code = "none" /\ task[t].outcome = "Completed"
=============================================================================
