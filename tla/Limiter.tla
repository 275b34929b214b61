-------------------------------- MODULE Limiter --------------------------------
(***************************************************************************)
(* What the limiter of a connector promises (conn.limiter of iscsi.go,     *)
(* nvme.go and fc.go), with no permits: no more calls are inside than the  *)
(* limit, a call waits only when it must, they enter in the order in which *)
(* they came, and none is refused that was not cancelled.  ISCSIConnect is *)
(* shown to implement it, whatever its calls do inside.                    *)
(***************************************************************************)
EXTENDS Naturals, FiniteSets, SequencesExt

CONSTANTS Call,   \* the calls that come
          Limits  \* how many may be inside

VARIABLES limit,
          stage,    \* per call: "outside", "waiting", "inside" or "gone"
          line,     \* those that wait, in the order in which they came
          cancelled \* calls whose context is done

vars == <<limit, stage, line, cancelled>>

Inside == {c \in Call : stage[c] = "inside"}

Room == Cardinality(Inside) < limit

Init == /\ limit \in Limits
        /\ stage = [c \in Call |-> "outside"]
        /\ line = <<>>
        /\ cancelled = {}

Moves(c, from, to) == stage[c] = from /\ stage' = [stage EXCEPT ![c] = to]

Enter(c) == /\ Moves(c, "outside", "inside")
            /\ Room /\ line = <<>> /\ c \notin cancelled
            /\ UNCHANGED line

Wait(c) == /\ Moves(c, "outside", "waiting")
           /\ ~Room \/ line # <<>>
           /\ line' = Append(line, c)

EnterFirst == /\ line # <<>> /\ Room
              /\ Moves(Head(line), "waiting", "inside")
              /\ line' = Tail(line)

Refuse(c) == /\ c \in cancelled
             /\ \/ Moves(c, "outside", "gone") /\ UNCHANGED line
                \/ /\ Moves(c, "waiting", "gone")
                   /\ \E i \in DOMAIN line : line[i] = c /\ line' = RemoveAt(line, i)

\* Calls that share the answer of one leave together.
Leave == /\ \E S \in SUBSET Inside :
               stage' = [c \in Call |-> IF c \in S THEN "gone" ELSE stage[c]]
         /\ UNCHANGED line

Cancel(c) == /\ c \notin cancelled /\ cancelled' = cancelled \cup {c}
             /\ UNCHANGED <<limit, stage, line>>

\* A call moves, or is cancelled.
Next == \/ /\ stage' # stage /\ UNCHANGED <<limit, cancelled>>
           /\ \/ \E c \in Call : Enter(c) \/ Wait(c) \/ Refuse(c)
              \/ EnterFirst \/ Leave
        \/ \E c \in Call : Cancel(c)

Spec == Init /\ [][Next]_vars

================================================================================
