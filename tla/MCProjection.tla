---------------------------- MODULE MCProjection ----------------------------
(* Projection on two memories, for TLC.                                    *)
EXTENDS Projection

CONSTANTS m1, m2

\* An empty backup, and one taken when the first memory had just been added.
MCBackups == {[m \in Memories |-> Absent],
              [m \in Memories |-> IF m = m1
                    THEN [life |-> "live", rev |-> 1, conf |-> 0] ELSE Absent]}
=============================================================================
