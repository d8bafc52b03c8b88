------------------------------- MODULE MCMscp -------------------------------
(* A controller with one disk and an unused drive, and a guest that brings *)
(* the disk online, transfers, compares, aborts and resets.                *)
EXTENDS Mscp

Cmd(op, d) ==
    [op |-> op, unit |-> d, size |-> 0, buf |-> "ok", ths |-> FALSE, tmo |-> FALSE, target |-> 0]

Transfer(op, n, buf) == [Cmd(op, 0) EXCEPT !.size = n, !.buf = buf]

MCShapes ==
    {Cmd("ONL", 0), Cmd("AVL", 0), [Cmd("SCC", 0) EXCEPT !.ths = TRUE],
     Transfer("CMP", 2, "ok"), Transfer("RD", 0, "ok"), Transfer("WR", 1, "nxm"),
     [Cmd("ABO", 0) EXCEPT !.target = 2], Cmd("PIE", 0)}

MCWords == {{"VL", "IE", "VEC"}, {"VL"}, {"VL", "WR"}, {"NXM"}, {}, {"GO", "LF"}}
=============================================================================
