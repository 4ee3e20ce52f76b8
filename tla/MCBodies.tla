------------------------------ MODULE MCBodies ------------------------------
(***************************************************************************)
(* Values at and around every boundary of the rules.                       *)
(***************************************************************************)
EXTENDS Bodies

T(raw, trim) == [raw |-> raw, trim |-> trim]

L(concept, quantity, unit) ==
  [concept |-> concept, quantity |-> quantity, unit |-> unit]

AnyLine == L(T(4, 4), 1000, 2500)

MCPlainest ==
  [json |-> "complete", number |-> T(6, 6), customer |-> T(4, 4),
   currency |-> T(3, 3), date |-> "valid", tax |-> 0, lines |-> <<AnyLine>>]

Lines ==
  {L(c, 1000, 2500) : c \in {T(0, 0), T(2, 0), T(200, 200), T(202, 200), T(201, 201)}}
    \cup {L(T(4, 4), q, 2500) : q \in {-1, 0, 4, 5, 9, 10}}
    \cup {L(T(4, 4), 1000, -1)}

MCChoices ==
  [json |-> Json,
   number |-> {T(0, 0), T(50, 50), T(52, 50), T(51, 51)},
   customer |-> {T(3, 0), T(200, 200), T(201, 200), T(201, 201)},
   currency |-> {T(2, 2), T(3, 2), T(3, 3), T(4, 3), T(4, 4)},
   date |-> Date,
   tax |-> {-1, 0},
   lines |-> {<<>>, <<AnyLine>>} \cup {<<AnyLine, l>> : l \in Lines}]
=============================================================================
