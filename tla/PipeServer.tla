----------------------------- MODULE PipeServer -----------------------------
(***************************************************************************)
(* What the pipelined multiplier promises: a request per clock edge,       *)
(* answered in order and LATENCY edges after it was taken, not counting    *)
(* the edges on which an answer nobody takes holds everything up.          *)
(***************************************************************************)
EXTENDS Integers, Sequences

CONSTANTS Requests, LATENCY,
          Answers,      \* the answer to each request
          None          \* what is shown while no answer is due

VARIABLES
    queue,      \* the requests taken and not yet answered, oldest first
    due,        \* due[k]: some request is to be answered after k edges
    answer      \* what the response port shows

pipeVars == <<queue, due, answer>>

Shown(q, d) == IF d[0] THEN Answers[Head(q)] ELSE None

Init ==
    /\ queue = << >>
    /\ due = [k \in 0 .. LATENCY |-> FALSE]
    /\ answer = None

(* One edge that is not held up: an answer that was shown has been taken,  *)
(* everything else is an edge nearer, and a request may enter (new is a    *)
(* sequence of at most one request).                                       *)
Advance(new) ==
    /\ queue' = (IF due[0] THEN Tail(queue) ELSE queue) \o new
    /\ due' = [k \in 0 .. LATENCY |->
                  IF k = LATENCY THEN new # << >> ELSE due[k + 1]]
    /\ answer' = Shown(queue', due')

(* A reset cancels every request.                                          *)
Cancel ==
    /\ queue' = << >>
    /\ due' = [k \in 0 .. LATENCY |-> FALSE]
    /\ answer' = None

Next ==
    \/ Advance(<< >>)
    \/ \E r \in Requests : Advance(<<r>>)
    \/ Cancel

Spec == Init /\ [][Next]_pipeVars
=============================================================================
