---------------------------- MODULE MCPoliceSpawn ----------------------------
(* Small instances of PoliceSpawn.  Times are in ticks: the real ones are   *)
(* 2.5 s or 5 s between units, 50 s to the timeout, 4 s to a top-up.        *)
EXTENDS PoliceSpawn

CONSTANTS left, middle, right

MCRow == {left, middle, right}

(* A row of places, each near the next one only. *)
MCNear == {<<p, p>> : p \in MCRow}
            \cup {<<left, middle>>, <<middle, left>>,
                  <<middle, right>>, <<right, middle>>}
=============================================================================
