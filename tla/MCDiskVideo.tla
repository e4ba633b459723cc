------------------------------ MODULE MCDiskVideo ------------------------------
EXTENDS MiimQueue

\* Two pixels to a byte, three blocks over two blocks of the store.
Screen16 == [kind |-> "screen", rowSize |-> 5, colSize |-> 3, colors |-> 16, header |-> 0,
             asked |-> {<<0, 0>>, <<2, 1>>, <<1, 2>>, <<5, 1>>}]
Targa24  == [kind |-> "targa", rowSize |-> 4, colSize |-> 3, colors |-> 256, header |-> 1,
             asked |-> {<<0, 0>>, <<1, 1>>, <<3, 2>>}]
TwoPoints == {<<1, 2>>, <<2, 1>>}
BothSessions == {Screen16, Targa24}
=============================================================================
