-------------------------- MODULE MCResponseStream ---------------------------
(* Small instances of ResponseStream.                                        *)
EXTENDS ResponseStream, TLC

CONSTANTS t1, t2, r1, r2, u1, u2

\* The second turn may draw the ids of the first.
SharedResponseIds == (t1 :> {r1}) @@ (t2 :> {r1, r2})
SharedTurnIds == (t1 :> {u1}) @@ (t2 :> {u1, u2})

\* Only the second turn streams.  The choice is made when the first is posted,
\* so the constraint leaves out whole behaviours and cuts none short.
OneStream == ~ task[t1].stream
=============================================================================
