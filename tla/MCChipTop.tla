----------------------------- MODULE MCChipTop -----------------------------
(* An instance of the full chip: a key of exact length that ends inside    *)
(* its second word, a message that may end inside its first and be         *)
(* streamed on into the second, and the input combinations of one edge.    *)
EXTENDS ChipTop

MCLimit == [key |-> 5, msg |-> 6]
MCBase == [msg |-> 1, key |-> 3]

Idle == [tamper |-> FALSE, entropy |-> FALSE, m_ready |-> FALSE,
         beat |-> NoBeat, apb |-> [reg |-> "NONE"]]
Beat3(o, n, l) == [object |-> o, bytes |-> n, last |-> l]
MCBeats == {Beat3("key", 4, FALSE), Beat3("key", 1, TRUE),
            Beat3("msg", 4, FALSE), Beat3("msg", 3, TRUE), Beat3("msg", 0, TRUE)}
CommandIs(c) == [reg |-> "COMMAND", value |-> c]
Control(b) == [reg |-> "CONTROL", bits |-> b]
Writes == {CommandIs(c) : c \in {"VERIFY", "DECAPS"}}
            \cup {Control(b) : b \in {{"start"}, {"zeroize"}, {"ack"},
                                      {"ack", "clear"}}}

(* The host side: every beat and write, and the pairs that meet.           *)
MCHostIO ==
    {Idle, [Idle EXCEPT !.tamper = TRUE, !.entropy = TRUE],
     [Idle EXCEPT !.m_ready = TRUE],
     [Idle EXCEPT !.m_ready = TRUE, !.apb = Control({"ack"})],
     [Idle EXCEPT !.beat = Beat3("msg", 3, TRUE), !.apb = Control({"start"})]}
        \cup {[Idle EXCEPT !.beat = b] : b \in MCBeats}
        \cup {[Idle EXCEPT !.apb = w] : w \in Writes}

(* The firmware side: commands without objects.                            *)
MCRunLimit == [msg |-> 4]
MCRunBase == [msg |-> 1]
MCRunIO ==
    {[Idle EXCEPT !.entropy = TRUE], [Idle EXCEPT !.tamper = TRUE],
     [Idle EXCEPT !.apb = Control({"start"})],
     [Idle EXCEPT !.apb = Control({"zeroize"})]}
        \cup {[Idle EXCEPT !.apb = CommandIs(c)] : c \in {"DECAPS", "SELF_TEST"}}
=============================================================================
