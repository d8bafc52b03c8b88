------------------------------ MODULE Massbus ------------------------------
(***************************************************************************)
(* The Massbus adapter of pdp11_rh.c: its status and interrupt, its error  *)
(* bits, and the words it moves between memory and the buffer of a drive.  *)
(* mb is the state of one adapter, a record:                               *)
(*   cs1   of {"DONE", "IE", "TRE", "SC"}      iff   CSTB INTR             *)
(*   cs2   of {"PGE", "NEM", "NED", "WCE"}     int   the interrupt request *)
(*   unit  the drive of CS2                     wc, ba (with BAE), in words *)
(* Diagnostic bits and the inhibited address are left out, and no transfer *)
(* crosses a page of the Unibus map.                                       *)
(***************************************************************************)
EXTENDS Integers, FiniteSets, FiniteSetsExt

CONSTANTS
    RhCount,        \* a word count has 0200000 values
    RhMemory        \* words of memory

mba_upd_cs1(m, set, clr) ==
    LET iff == IF "DONE" \in set \ m.cs1 THEN "IE" \in m.cs1 ELSE m.iff
        cs1 == (m.cs1 \ clr) \cup set
        all == cs1 \cup (IF m.cs2 # {} THEN {"TRE", "SC"} ELSE IF "TRE" \in cs1 THEN {"SC"} ELSE {})
    IN [m EXCEPT !.iff = iff, !.cs1 = all, !.int = iff \/ {"SC", "DONE", "IE"} \subseteq all]

mba_set_don(m) == mba_upd_cs1(m, {"DONE"}, {})
mba_set_exc(m) == mba_upd_cs1(m, {"TRE", "DONE"}, {})
mba_upd_ata(m, some) == IF some THEN mba_upd_cs1(m, {"SC"}, {}) ELSE mba_upd_cs1(m, {}, {"SC"})
mba_set_cs2(m, flag) == mba_upd_cs1([m EXCEPT !.cs2 = @ \cup {flag}], {}, {})

(* The processor takes the interrupt: it is no longer enabled.             *)
mba0_inta(m) == [m EXCEPT !.cs1 = @ \ {"IE"}, !.iff = FALSE, !.int = FALSE]

mba_reset(m) ==
    [cs1 |-> {"DONE"}, cs2 |-> {}, iff |-> FALSE, int |-> FALSE, unit |-> 0,
     wc |-> 0, ba |-> 0]

-----------------------------------------------------------------------------
(* Writes to CS1, before and after the drive has seen the function.        *)
ErrorsCleared(m) == [m EXCEPT !.cs1 = @ \ {"TRE"}, !.cs2 = {}]

Enabled(m, bits) ==
    [m EXCEPT !.iff = @ \/ {"DONE", "IE"} \subseteq bits, !.cs1 = (@ \ {"IE"}) \cup (bits \cap {"IE"})]

Written(m, bits) == Enabled(IF "TRE" \in bits THEN ErrorsCleared(m) ELSE m, bits)

Started(m) == [ErrorsCleared(m) EXCEPT !.cs1 = @ \ {"DONE"}]

(* The other registers. *)
wr_CS2(m, unit) == [m EXCEPT !.unit = unit]
wr_WC(m, count) == [m EXCEPT !.wc = (RhCount - count) % RhCount]
wr_BA(m, address) == [m EXCEPT !.ba = address]

-----------------------------------------------------------------------------
(* Transfers of up to n words: no more than WC says, and only as far as    *)
(* there is memory.  WC goes on by what was asked for, BA by what was      *)
(* moved.                                                                  *)
Limited(m, n) == Min({n, RhCount - m.wc})
Address(m, k) == m.ba + k
Exist(m, n) ==
    IF m.ba >= RhMemory THEN 0 ELSE Min({n, RhMemory - m.ba})

Advanced(m, n, by) ==
    LET ended == [m EXCEPT !.wc = (@ + n) % RhCount, !.ba = @ + by]
    IN IF Exist(m, n) < n THEN mba_set_cs2(ended, "NEM") ELSE ended

mba_rdbufW(m, n) == Advanced(m, Limited(m, n), Exist(m, Limited(m, n)))

mba_wrbufW(m, n) == mba_rdbufW(m, n)

Stored(m, mem, n, buf) ==
    LET moved == Exist(m, Limited(m, n))
    IN [a \in DOMAIN mem |->
          IF moved = 0 \/ a \notin m.ba .. Address(m, moved - 1) THEN mem[a]
          ELSE buf[a - m.ba]]

(* The comparison stops at the first word that is different.               *)
mba_chbufW(m, mem, n, buf) ==
    LET exist == Exist(m, Limited(m, n))
        different == {k \in 0 .. exist - 1 : mem[Address(m, k)] # buf[k]}
    IN IF different = {} THEN mba_rdbufW(m, n)
       ELSE mba_set_cs2([m EXCEPT !.wc = (@ + Limited(m, n)) % RhCount,
                                  !.ba = Address(m, Min(different))], "WCE")
=============================================================================
