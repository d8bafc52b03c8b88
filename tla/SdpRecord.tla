----------------------------- MODULE SdpRecord -----------------------------
(***************************************************************************)
(* SDPParse of hid_server.cpp: the service record of an input device comes *)
(* as the bytes of data elements, in as many answers as the device likes;  *)
(* when it is complete the host looks through it for the names of the      *)
(* service and for the descriptor of the reports.                          *)
(*                                                                         *)
(* A device has a record, a tree of elements, and sends its encoding as    *)
(* the Bluetooth specification says.  Answers fit into the buffer of       *)
(* update(), 512 bytes, and the order in which u16() reads its two bytes   *)
(* is that of the text (C++ leaves it open).                               *)
(***************************************************************************)
EXTENDS Integers, Sequences, SequencesExt

CONSTANTS
    SdpRecords,     \* the records of devices: sequences of [id, value]
    SdpAnswers      \* how many bytes an answer may have

VARIABLE sdp        \* the device's record, the answer on its way and the host

SDP_DE_NULL == 0
SDP_DE_UINT == 1
SDP_DE_INT == 2
SDP_DE_UUID == 3
SDP_DE_STRING == 4
SDP_DE_BOOL == 5
SDP_DE_SEQ == 6
SDP_DE_ALT == 7
SDP_DE_URL == 8

Wanted == {\o400, \o401, \o402, \o1006}    \* three names and HID_DESCRIPTOR_LIST

-----------------------------------------------------------------------------
(* Reading: d are the bytes, p what is known of them, p.pos the next one.  *)

u8(d, pos) == d[pos]
u16(d, pos) == 256 * d[pos] + d[pos + 1]
u32(d, pos) == 65536 * u16(d, pos) + u16(d, pos + 2)

(* Mutant: a length of two bytes is taken for one byte. *)
HeaderNarrow(d, pos) ==
    LET type == u8(d, pos) \div 8
        i == u8(d, pos) % 8
    IN CASE i = 5 -> [type |-> type, n |-> u8(d, pos + 1), pos |-> pos + 2]
         [] i = 6 -> [type |-> type, n |-> u8(d, pos + 2), pos |-> pos + 2]
         [] i = 7 -> [type |-> type, n |-> u32(d, pos + 1), pos |-> pos + 5]
         [] i < 5 -> [type |-> type, n |-> IF type = SDP_DE_NULL THEN 0 ELSE 2 ^ i, pos |-> pos + 1]

(* The type of an element and how many bytes follow.                       *)
header(d, pos) ==
    LET type == u8(d, pos) \div 8
        i == u8(d, pos) % 8
    IN CASE i = 5 -> [type |-> type, n |-> u8(d, pos + 1), pos |-> pos + 2]
         [] i = 6 -> [type |-> type, n |-> u16(d, pos + 1), pos |-> pos + 3]
         [] i = 7 -> [type |-> type, n |-> u32(d, pos + 1), pos |-> pos + 5]
         [] i < 5 -> [type |-> type, n |-> IF type = SDP_DE_NULL THEN 0 ELSE 2 ^ i, pos |-> pos + 1]

(* The number of an attribute; anything else ends the reading (-1).        *)
get_id16(d, p) ==
    LET h == header(d, p.pos)
    IN IF h.type # SDP_DE_UINT \/ h.n # 2 THEN [p EXCEPT !.pos = h.pos, !.id = -1]
       ELSE [p EXCEPT !.pos = h.pos + 2, !.id = u16(d, h.pos)]

(* A string belongs to the attribute read last, however deep it is; of     *)
(* several the last one stays.                                             *)
on_string(p, s) == IF p.id \in Wanted THEN [p EXCEPT !.found[p.id] = s] ELSE p

(* The elements up to end, each after its number if they are attributes.   *)
(* Whatever is no sequence and no string is skipped.                       *)
RECURSIVE item(_, _, _, _)
item(d, p0, end, want_id) ==
    LET p == IF want_id THEN get_id16(d, p0) ELSE p0
        h == header(d, p.pos)
        after == h.pos + h.n
        next == CASE h.type = SDP_DE_SEQ -> item(d, [p EXCEPT !.pos = h.pos], after, FALSE)
                  [] h.type = SDP_DE_STRING -> on_string([p EXCEPT !.pos = after], SubSeq(d, h.pos, after - 1))
                  [] h.type = SDP_DE_BOOL -> [p EXCEPT !.pos = h.pos + 1]
                  [] h.type \notin {SDP_DE_SEQ, SDP_DE_STRING, SDP_DE_BOOL} -> [p EXCEPT !.pos = after]
    IN IF p0.pos >= end THEN p0
       ELSE IF want_id /\ p.id = -1 THEN [p EXCEPT !.bad = TRUE]
       ELSE item(d, next, end, want_id)

(* The records in a list. *)
RECURSIVE list(_, _, _)
list(d, p, end) ==
    LET h == header(d, p.pos)
        next == item(d, [p EXCEPT !.pos = h.pos], h.pos + h.n, TRUE)
    IN IF p.pos >= end THEN p
       ELSE IF h.type # SDP_DE_SEQ THEN [p EXCEPT !.pos = h.pos]
       ELSE IF next.bad THEN next
       ELSE list(d, next, end)

(* The lists in what has come. *)
RECURSIVE lists(_, _)
lists(d, p) ==
    LET h == header(d, p.pos)
        next == list(d, [p EXCEPT !.pos = h.pos], h.pos + h.n)
    IN IF p.pos > Len(d) THEN p
       ELSE IF h.type # SDP_DE_SEQ THEN [p EXCEPT !.pos = h.pos]
       ELSE IF next.bad THEN next
       ELSE lists(d, next)

Nothing == [id \in Wanted |-> <<>>]
parse(d) == lists(d, [pos |-> 1, id |-> 0, bad |-> FALSE, found |-> Nothing]).found

-----------------------------------------------------------------------------
(* The device.  An element is a type, what it contains and, if its length  *)
(* is not given by the type, how many bytes the length has (`wide`).       *)
Size(n) == CHOOSE i \in 0 .. 4 : 2 ^ i = n

Header(type, n, wide) ==
    CASE type = SDP_DE_NULL -> <<0>>
      [] type \in {SDP_DE_UINT, SDP_DE_INT, SDP_DE_UUID, SDP_DE_BOOL} -> <<8 * type + Size(n)>>
      [] type \in {SDP_DE_STRING, SDP_DE_SEQ, SDP_DE_ALT, SDP_DE_URL} ->
            CASE wide = 1 -> <<8 * type + 5, n>>
              [] wide = 2 -> <<8 * type + 6, n \div 256, n % 256>>
              [] wide = 4 -> <<8 * type + 7, 0, 0, n \div 256, n % 256>>

RECURSIVE Bytes(_)
Bytes(e) ==
    LET inner == IF e.type \in {SDP_DE_SEQ, SDP_DE_ALT} THEN FlattenSeq([k \in DOMAIN e.of |-> Bytes(e.of[k])]) ELSE e.of
    IN Header(e.type, Len(inner), e.wide) \o inner

Element(type, of, wide) == [type |-> type, of |-> of, wide |-> wide]
Attribute(a) == <<Element(SDP_DE_UINT, <<a.id \div 256, a.id % 256>>, 0), a.value>>
Encoded(record) ==
    Bytes(Element(SDP_DE_SEQ, <<Element(SDP_DE_SEQ, FlattenSeq([k \in DOMAIN record |-> Attribute(record[k])]), 2)>>, 2))

(* The strings of an element, without those in alternatives.               *)
RECURSIVE Strings(_)
Strings(e) ==
    CASE e.type = SDP_DE_STRING -> <<e.of>>
      [] e.type = SDP_DE_SEQ -> FlattenSeq([k \in DOMAIN e.of |-> Strings(e.of[k])])
      [] e.type \notin {SDP_DE_STRING, SDP_DE_SEQ} -> <<>>

StringsOf(record, id) ==
    FlattenSeq([k \in DOMAIN record |-> IF record[k].id = id THEN Strings(record[k].value) ELSE <<>>])

-----------------------------------------------------------------------------
(* Mutant: an answer takes the place of those before it.                   *)
addOver(s, data) == [s EXCEPT !.buf = data]

(* What has come is added to what was there.                               *)
add(s, data) == [s EXCEPT !.buf = @ \o data]

SdpInit ==
    \E record \in SdpRecords :
        sdp = [record |-> record, bytes |-> Encoded(record), step |-> "search", cont |-> 0,
               answer |-> <<>>, buf |-> <<>>, found |-> Nothing]

(* The device goes on where the continuation state of the request says and *)
(* tells with the answer where to go on next, or 0: that was all.          *)
SdpAnswer ==
    /\ sdp.step = "search"
    /\ \E n \in SdpAnswers :
          LET last == sdp.cont + n >= Len(sdp.bytes)
              to == IF last THEN Len(sdp.bytes) ELSE sdp.cont + n
          IN sdp' = [sdp EXCEPT !.step = "answer", !.answer = SubSeq(sdp.bytes, sdp.cont + 1, to),
                                !.cont = IF last THEN 0 ELSE to]

(* update(): the host asks for more, or it has the record.                 *)
SdpUpdate ==
    /\ sdp.step = "answer"
    /\ LET s == add(sdp, sdp.answer)
       IN sdp' = [s EXCEPT !.answer = <<>>,
                           !.step = IF s.cont = 0 THEN "done" ELSE "search",
                           !.found = IF s.cont = 0 THEN parse(s.buf) ELSE @]

SdpNext == SdpAnswer \/ SdpUpdate

-----------------------------------------------------------------------------
(* However the device cuts its record, and whatever else there is in it,   *)
(* the host finds the names and the descriptor: of each the last string.   *)
SdpExact ==
    sdp.step = "done" =>
        \A id \in Wanted :
            LET strings == StringsOf(sdp.record, id)
            IN sdp.found[id] = IF strings = <<>> THEN <<>> ELSE Last(strings)
=============================================================================
