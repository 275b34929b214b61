------------------------------ MODULE MCFCConnect ------------------------------
(* One FC or RDM call on a host that changes: the second HBA is not zoned to *)
(* the second target.                                                        *)
EXTENDS FCConnect

CONSTANTS h1, h2, t1, t2

TwoHbas == {h1, h2}
TwoTargets == {t1, t2}
ThreePaths == {<<h1, t1>>, <<h1, t2>>, <<h2, t1>>}
================================================================================
