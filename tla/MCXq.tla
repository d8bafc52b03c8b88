-------------------------------- MODULE MCXq --------------------------------
(* A driver with three receive buffers and short transmissions, a read     *)
(* queue for two packets, and one reset.                                   *)
EXTENDS Xq

D(nth, size, last) == [last |-> last, setup |-> FALSE, bad |-> FALSE, nth |-> nth, size |-> size]

MCMessages ==
    {<<D(1, 1, TRUE)>>, <<D(1, 2, FALSE), D(1, 2, TRUE)>>, <<D(1, 1, TRUE), D(2, 1, TRUE)>>,
     <<[D(1, 1, TRUE) EXCEPT !.setup = TRUE]>>, <<[D(1, 1, TRUE) EXCEPT !.bad = TRUE]>>}

MCCsrModes == {{"RE", "IE", "IL"}, {"IE"}, {"RE", "IE", "IL", "EL"}}
=============================================================================
